---- MODULE Spec2Model ----
(***************************************************************************)
(* A model of the cellgrid library: Coord, Rect and VecGrid with its       *)
(* coordinate/index mapping, cell mutators and iteration protocols.        *)
(***************************************************************************)
EXTENDS Integers, Sequences, FiniteSets, TLC

VARIABLES
    bounds,            \* VecGrid.bounds: the Rect the grid covers
    cells,             \* VecGrid.cells: row-major Vec<T> (cells[i + 1] is Rust's cells[i])
    pc,                \* what the program is doing: "index", "gen", "idle", "called", "sel", "selmut", "flood"
    gen,               \* with_generator's locals: the closure, the loop cursor, the log of calls
    last,              \* the last completed call: name, arguments, return value, cells before it
    coords_in,         \* the coordinates a selection iterator has pulled from `coords` so far
    items,             \* the items the running iterator has returned so far
    visited_coords,    \* SelectionIterMut.visited_coords
    searched_coords,   \* FloodIter.searched_coords
    coords_to_search,  \* FloodIter.coords_to_search
    predicate,         \* FloodIter.predicate, as the set of cell values it accepts
    obj,               \* the value a constructor returned (Rect, Line, Circle, Cluster, the Grid of grid.rs), or its panic
    iter,              \* the running pattern iterator: a RectIter, LineIter or CircleIter struct
    tree,              \* the BspTree Rect::bsp returned, or what was collected from a Cluster's iterators
    pulled             \* how many items the caller has pulled from `iter` (kept in `items` or skipped)

vars == <<bounds, cells, pc, gen, last, coords_in, items, visited_coords,
          searched_coords, coords_to_search, predicate, obj, iter, tree, pulled>>

(***************************************************************************)
(* Bounds of the model.                                                    *)
(***************************************************************************)
\* Rect corners of the index-mapping specification range over -MaxCorner..MaxCorner.
MaxCorner == 2
\* A selection iterator is driven for at most MaxSel calls of next().
MaxSel == 3
\* Cell values of the mutable grids are 0..MaxVal; 0 is T::default().
MaxVal == 1
\* The roots Rect::bsp is called on are up to MaxSide wide and high.
MaxSide == 5
\* The splitters refuse below a min_size of 1..MaxMinSize.
MaxMinSize == 2
\* Circles have a radius of 0..MaxRadius.
MaxRadius == 7
\* The clusters are the sets of coordinates of a box MaxClusterWidth wide.
MaxClusterWidth == 3
\* The grids of grid.rs are 1..MaxDim wide and high,
MaxDim == 3
\* at the offsets -MaxOffset..MaxOffset.
MaxOffset == 1

(***************************************************************************)
(* Option<T> and small helpers.                                            *)
(***************************************************************************)
None == [some |-> FALSE]

Some(v) == [some |-> TRUE, val |-> v]

Min(a, b) == IF a <= b THEN a ELSE b

Max(a, b) == IF a >= b THEN a ELSE b

Range(s) == {s[i] : i \in DOMAIN s}

Default == 0

Vals == 0..MaxVal

(***************************************************************************)
(* Coord                                                                   *)
(***************************************************************************)
Coord(x, y) == [x |-> x, y |-> y]

CoordAdd(a, b) == Coord(a.x + b.x, a.y + b.y)

CoordSub(a, b) == Coord(a.x - b.x, a.y - b.y)

\* Reflect over the positive diagonal axis.
flip(c) == Coord(c.y, c.x)

\* Reflect over the negative diagonal axis.
negate(c) == Coord(-c.x, -c.y)

\* Reflect over the y-axis.
negate_x(c) == Coord(-c.x, c.y)

\* Reflect over the x-axis.
negate_y(c) == Coord(c.x, -c.y)

\* i32::abs and i32::signum
abs(n) == IF n < 0 THEN -n ELSE n

signum(n) == IF n > 0 THEN 1 ELSE IF n < 0 THEN -1 ELSE 0

(***************************************************************************)
(* patterns::Rect (exclusive right / bottom)                               *)
(***************************************************************************)
\* with_corners that takes corner1 as the top-left corner without sorting.
M_Rect_with_corners_unsorted(corner1, corner2) ==
    [top |-> corner1.y, bottom |-> corner2.y, left |-> corner1.x, right |-> corner2.x]

Rect_with_corners(corner1, corner2) ==
    [top    |-> Min(corner1.y, corner2.y),
     bottom |-> Max(corner1.y, corner2.y),
     left   |-> Min(corner1.x, corner2.x),
     right  |-> Max(corner1.x, corner2.x)]

Rect_new(dimensions) == Rect_with_corners(Coord(0, 0), dimensions)

width(r) == r.right - r.left

height(r) == r.bottom - r.top

area(r) == width(r) * height(r)

offset(r) == Coord(r.left, r.top)

contains(r, coord) ==
    coord.x >= r.left /\ coord.x < r.right /\ coord.y >= r.top /\ coord.y < r.bottom

x_range(r) == r.left .. (r.right - 1)

y_range(r) == r.top .. (r.bottom - 1)

\* partition_vertical whose second part reaches one row into the first.
M_partition_vertical_overlap(r, partition) ==
    LET absolute_partition == r.top + partition
    IN  <<[r EXCEPT !.top = absolute_partition], [r EXCEPT !.bottom = absolute_partition + 1]>>

\* (the part that keeps `bottom`, the part that keeps `top`)
partition_vertical(r, partition) ==
    LET absolute_partition == r.top + partition
    IN  <<[r EXCEPT !.top = absolute_partition], [r EXCEPT !.bottom = absolute_partition]>>

\* partition_horizontal whose right part starts one column late.
M_partition_horizontal_gap(r, partition) ==
    LET absolute_partition == r.left + partition
    IN  <<[r EXCEPT !.right = absolute_partition], [r EXCEPT !.left = absolute_partition + 1]>>

\* (the left part, the right part)
partition_horizontal(r, partition) ==
    LET absolute_partition == r.left + partition
    IN  <<[r EXCEPT !.right = absolute_partition], [r EXCEPT !.left = absolute_partition]>>

\* Orientation::orthogonal
orthogonal(orientation) ==
    IF orientation = "Horizontal" THEN "Vertical" ELSE "Horizontal"

\* The splitter closures Rect::bsp is called with: the bisecting one of
\* tests::equally_subdivided_bsp, and the one of examples/dungeon.rs with its
\* random cut fixed at the lowest or the highest offset it may draw.
splitter(f, r, orientation) ==
    LET dimension == IF orientation = "Horizontal" THEN width(r) ELSE height(r)
    IN  IF f.kind = "bisect"
        THEN LET partition == dimension \div 2
             IN  IF partition < f.min_size THEN None
                 ELSE Some([partition |-> partition, next |-> orthogonal(orientation)])
        ELSE LET max_size == dimension - f.min_size
             IN  IF max_size - f.min_size <= 0 THEN None
                 ELSE Some([partition |-> IF f.kind = "low" THEN f.min_size ELSE max_size,
                            next |-> orthogonal(orientation)])

\* BspTree::Leaf and BspTree::Node
Leaf(r) == [leaf |-> TRUE, rect |-> r]

Node(r, first, second) == [leaf |-> FALSE, rect |-> r, first |-> first, second |-> second]

RECURSIVE bsp(_, _, _)
bsp(r, orientation, f) ==
    LET split == splitter(f, r, orientation)
    IN  IF split.some
        THEN LET parts == IF orientation = "Horizontal"
                          THEN partition_horizontal(r, split.val.partition)
                          ELSE partition_vertical(r, split.val.partition)
                 left_or_bottom == parts[1]
                 right_or_top   == parts[2]
             IN  Node(r, bsp(left_or_bottom, split.val.next, f),
                         bsp(right_or_top, split.val.next, f))
        ELSE Leaf(r)

RECURSIVE M_leaves_second_first(_)
\* leaves that appends the first child's leaves to the second child's.
M_leaves_second_first(t) ==
    IF t.leaf THEN <<t.rect>>
    ELSE M_leaves_second_first(t.second) \o M_leaves_second_first(t.first)

RECURSIVE leaves(_)
\* BspTree::leaves
leaves(t) == IF t.leaf THEN <<t.rect>> ELSE leaves(t.first) \o leaves(t.second)

\* Rect::iter
Rect_iter(r) ==
    [kind |-> "RectIter", rect |-> r, next_coord |-> Coord(r.left, r.top), is_finished |-> FALSE]

\* RectIter::next that never leaves the first row.
M_RectIter_next_one_row(it) ==
    IF it.is_finished THEN [ret |-> None, iter |-> it]
    ELSE [ret  |-> Some(it.next_coord),
          iter |-> IF it.next_coord.x < it.rect.right - 1
                   THEN [it EXCEPT !.next_coord.x = it.next_coord.x + 1]
                   ELSE [it EXCEPT !.is_finished = TRUE]]

\* RectIter::next: the item returned and the iterator afterwards.
RectIter_next(it) ==
    IF it.is_finished THEN [ret |-> None, iter |-> it]
    ELSE [ret  |-> Some(it.next_coord),
          iter |-> IF it.next_coord.x < it.rect.right - 1
                   THEN [it EXCEPT !.next_coord.x = it.next_coord.x + 1]
                   ELSE IF it.next_coord.y < it.rect.bottom - 1
                   THEN [it EXCEPT !.next_coord = Coord(it.rect.left, it.next_coord.y + 1)]
                   ELSE [it EXCEPT !.is_finished = TRUE]]

\* The panic of a failed assert!.
Panic(message) == [kind |-> "panic", message |-> message]

\* Grid::new(dimensions, offset) of grid.rs: the grid, or the panic of its assert!.
Grid_new(dimensions, off) ==
    IF ~(dimensions.x > 0 /\ dimensions.y > 0)
    THEN Panic("Grid dimensions must be positive")
    ELSE [kind       |-> "Grid",
          cells      |-> [i \in 1..(dimensions.x * dimensions.y) |-> Default],
          dimensions |-> dimensions,
          offset     |-> off]

(***************************************************************************)
(* `as f32` and f32 division, on the non-negative integers the index       *)
(* mapping feeds them (IEEE-754 binary32: 24-bit significand, round to     *)
(* nearest, ties to even).                                                 *)
(***************************************************************************)
RECURSIVE F32Spacing(_, _)
\* The distance between neighbouring f32 values around n >= 0.
F32Spacing(n, s) == IF n \div s < 16777216 THEN s ELSE F32Spacing(n, 2 * s)

\* q / d rounded to the nearest integer, ties to the even one.
RoundTiesEven(q, d) ==
    LET m == q \div d
        r == q % d
    IN  IF 2 * r > d \/ (2 * r = d /\ m % 2 = 1) THEN m + 1 ELSE m

\* `n as f32` for an integer n >= 0.
AsF32(n) ==
    LET s == F32Spacing(n, 1) IN RoundTiesEven(n, s) * s

RECURSIVE F32HalfUlpInv(_, _)
\* 1 / (half the f32 spacing in the binade of a quotient whose integer part is n).
F32HalfUlpInv(n, k) == IF n < 2 THEN k ELSE F32HalfUlpInv(n \div 2, k \div 2)

\* `(a / b).floor() as i32` for f32 values a >= 0 and b > 0 that are integers.
F32DivFloor(a, b) ==
    LET n == a \div b
        r == a % b
    IN  IF r = 0 THEN AsF32(n)
        ELSE IF n >= 8388608
             THEN LET s == F32Spacing(n, 1) IN RoundTiesEven(a, b * s) * s
        ELSE LET k == IF n = 0 THEN 33554432 ELSE F32HalfUlpInv(n, 16777216)
             IN  IF b - r <= b \div k THEN n + 1 ELSE n

(***************************************************************************)
(* patterns::Line. LineIter.fault is an f32 that only ever holds multiples *)
(* of 0.5: the model keeps it in halves (fault = 2 * the f32 value), and   *)
(* rounds every f32 result to the 24-bit significand.                      *)
(***************************************************************************)
\* The f32 nearest to v / 2, in halves.
F32Halves(v) == IF v >= 0 THEN AsF32(v) ELSE -AsF32(-v)

Line_new(from, to) == [kind |-> "Line", from |-> from, to |-> to]

\* Line::iter
Line_iter(l) ==
    LET delta      == CoordSub(l.to, l.from)
        x_step     == Coord(signum(delta.x), 0)
        y_step     == Coord(0, signum(delta.y))
        x_is_major == abs(delta.x) > abs(delta.y)
        major_fault == IF x_is_major THEN abs(delta.x) ELSE abs(delta.y)
        minor_fault == IF x_is_major THEN abs(delta.y) ELSE abs(delta.x)
    IN  [kind        |-> "LineIter",
         end_coord   |-> l.to,
         next_coord  |-> l.from,
         major_step  |-> IF x_is_major THEN x_step ELSE y_step,
         minor_step  |-> IF x_is_major THEN y_step ELSE x_step,
         fault       |-> AsF32(major_fault),
         major_fault |-> major_fault,
         minor_fault |-> minor_fault,
         is_finished |-> FALSE]

\* LineIter::next: the item returned and the iterator afterwards.
LineIter_next(it) ==
    IF it.is_finished THEN [ret |-> None, iter |-> it]
    ELSE IF it.next_coord = it.end_coord
    THEN [ret |-> Some(it.end_coord), iter |-> [it EXCEPT !.is_finished = TRUE]]
    ELSE LET stepped == CoordAdd(it.next_coord, it.major_step)
             fault   == F32Halves(it.fault - 2 * AsF32(it.minor_fault))
         IN  [ret  |-> Some(it.next_coord),
              iter |-> IF fault < 0
                       THEN [it EXCEPT !.fault = F32Halves(fault + 2 * AsF32(it.major_fault)),
                                       !.next_coord = CoordAdd(stepped, it.minor_step)]
                       ELSE [it EXCEPT !.fault = fault, !.next_coord = stepped]]

RECURSIVE LineIter_advance(_, _, _)
\* n calls of LineIter::next in a row: the iterator afterwards and the
\* number of items among the results (count more). A call that moves by
\* major_step alone and leaves `fault` as it was is repeated by every
\* call after it until next_coord is end_coord: such calls are taken in
\* one stride.
LineIter_advance(it, n, count) ==
    IF n = 0 \/ it.is_finished THEN [iter |-> it, count |-> count]
    ELSE LET r      == LineIter_next(it).iter
             ahead  == CoordSub(it.end_coord, it.next_coord)
             dist   == abs(ahead.x) + abs(ahead.y)
             on_ray == ahead = Coord(dist * it.major_step.x, dist * it.major_step.y)
             stride == IF on_ray /\ dist <= n THEN dist ELSE n
         IN  IF /\ it.next_coord # it.end_coord
                /\ r.fault = it.fault
                /\ r.next_coord = CoordAdd(it.next_coord, it.major_step)
             THEN LineIter_advance(
                      [it EXCEPT !.next_coord = Coord(it.next_coord.x + stride * it.major_step.x,
                                                      it.next_coord.y + stride * it.major_step.y)],
                      n - stride, count + stride)
             ELSE LineIter_advance(r, n - 1, count + 1)

(***************************************************************************)
(* patterns::Circle                                                        *)
(***************************************************************************)
Circle_new(center, radius) == [kind |-> "Circle", center |-> center, radius |-> radius]

mirror_quadrants(circle, coord) ==
    <<CoordAdd(circle.center, coord),
      CoordAdd(circle.center, flip(coord)),
      CoordAdd(circle.center, negate_y(coord)),
      CoordAdd(circle.center, negate(flip(coord)))>>

\* mirror_octants that leaves out the reflection over the y-axis.
M_mirror_octants_no_negate_x(circle, coord) ==
    <<CoordAdd(circle.center, coord),
      CoordAdd(circle.center, flip(coord)),
      CoordAdd(circle.center, negate_x(flip(coord))),
      CoordAdd(circle.center, coord),
      CoordAdd(circle.center, negate(coord)),
      CoordAdd(circle.center, negate(flip(coord))),
      CoordAdd(circle.center, negate_y(flip(coord))),
      CoordAdd(circle.center, negate_y(coord))>>

\* mirror_octants that leaves out the reflections over the diagonals.
M_mirror_octants_no_flip(circle, coord) ==
    <<CoordAdd(circle.center, coord),
      CoordAdd(circle.center, coord),
      CoordAdd(circle.center, negate_x(coord)),
      CoordAdd(circle.center, negate_x(coord)),
      CoordAdd(circle.center, negate(coord)),
      CoordAdd(circle.center, negate(coord)),
      CoordAdd(circle.center, negate_y(coord)),
      CoordAdd(circle.center, negate_y(coord))>>

mirror_octants(circle, coord) ==
    <<CoordAdd(circle.center, coord),
      CoordAdd(circle.center, flip(coord)),
      CoordAdd(circle.center, negate_x(flip(coord))),
      CoordAdd(circle.center, negate_x(coord)),
      CoordAdd(circle.center, negate(coord)),
      CoordAdd(circle.center, negate(flip(coord))),
      CoordAdd(circle.center, negate_y(flip(coord))),
      CoordAdd(circle.center, negate_y(coord))>>

\* Circle::iter: the four mirrors of (0, radius) are queued and marked
\* seen without a look at seen_coords.
Circle_iter(circle) ==
    LET starting_coord == Coord(0, circle.radius)
        quadrants      == mirror_quadrants(circle, starting_coord)
    IN  [kind        |-> "CircleIter",
         circle      |-> circle,
         cursor      |-> starting_coord,
         d           |-> 3 - (2 * circle.radius),
         coord_queue |-> quadrants,
         seen_coords |-> Range(quadrants)]

RECURSIVE PushUnseen(_, _)
\* The loop of CircleIter::next over the mirrors: each one not seen yet is
\* marked seen and queued.
PushUnseen(it, coords) ==
    IF coords = <<>> THEN it
    ELSE LET coord == Head(coords)
         IN  PushUnseen(IF coord \in it.seen_coords THEN it
                        ELSE [it EXCEPT !.seen_coords = it.seen_coords \cup {coord},
                                        !.coord_queue = Append(it.coord_queue, coord)],
                        Tail(coords))

\* CircleIter::next: the item returned and the iterator afterwards.
CircleIter_next(it) ==
    LET traced ==
            IF Len(it.coord_queue) = 0 /\ it.cursor.y > it.cursor.x
            THEN LET x      == it.cursor.x + 1
                     moved  == IF it.d < 0
                               THEN [it EXCEPT !.cursor = Coord(x, it.cursor.y),
                                               !.d = it.d + (4 * x) + 6]
                               ELSE [it EXCEPT !.cursor = Coord(x, it.cursor.y - 1),
                                               !.d = 4 * (x - it.cursor.y) + 10]
                 IN  PushUnseen(moved, mirror_octants(moved.circle, moved.cursor))
            ELSE it
    IN  IF Len(traced.coord_queue) > 0
        THEN [ret  |-> Some(Head(traced.coord_queue)),
              iter |-> [traced EXCEPT !.coord_queue = Tail(traced.coord_queue)]]
        ELSE [ret |-> None, iter |-> traced]

(***************************************************************************)
(* VecGrid: the coordinate <-> index mapping                               *)
(***************************************************************************)
\* coord_to_index without its bounds check.
M_coord_to_index_unchecked(b, coord) ==
    LET offset_coord == CoordSub(coord, offset(b))
    IN  Some(offset_coord.x + offset_coord.y * width(b))

coord_to_index(b, coord) ==
    IF ~contains(b, coord) THEN None
    ELSE LET offset_coord == CoordSub(coord, offset(b))
         IN  Some(offset_coord.x + offset_coord.y * width(b))

index_to_coord_with_bounds(b, index) ==
    LET y == F32DivFloor(AsF32(index), AsF32(width(b)))
        x == index - (y * width(b))
    IN  CoordAdd(Coord(x, y), offset(b))

index_to_coord(b, index) == index_to_coord_with_bounds(b, index)

(***************************************************************************)
(* VecGrid: cell access and the coordinate-addressed mutators              *)
(***************************************************************************)
\* slice::get(index): the cell, or None past the end of the Vec.
VecGet(cs, index) == IF index >= 0 /\ index < Len(cs) THEN Some(cs[index + 1]) ELSE None

\* slice::get_mut(index): a handle to the cell, which the model names by its index.
VecGetMut(cs, index) == IF index >= 0 /\ index < Len(cs) THEN Some(index) ELSE None

\* `*cell = value` through the handle `index`.
WriteCell(cs, index, value) == [cs EXCEPT ![index + 1] = value]

\* copy_within that moves the cell: the source is left at the default.
M_copy_within_moves(cs, src_index, dest_index) ==
    [cs EXCEPT ![dest_index + 1] = cs[src_index + 1], ![src_index + 1] = Default]

\* slice::copy_within(src_index..src_index + 1, dest_index)
copy_within(cs, src_index, dest_index) == [cs EXCEPT ![dest_index + 1] = cs[src_index + 1]]

\* slice::swap(index1, index2)
VecSwap(cs, index1, index2) ==
    [cs EXCEPT ![index1 + 1] = cs[index2 + 1], ![index2 + 1] = cs[index1 + 1]]

get(b, cs, coord) ==
    LET index == coord_to_index(b, coord)
    IN  IF ~index.some THEN None ELSE VecGet(cs, index.val)

get_mut(b, cs, coord) ==
    LET index == coord_to_index(b, coord)
    IN  IF ~index.some THEN None ELSE VecGetMut(cs, index.val)

\* The mutators return the cells after the call and the call's return value.
set(b, cs, coord, value) ==
    LET cell == get_mut(b, cs, coord)
    IN  IF cell.some THEN [cells |-> WriteCell(cs, cell.val, value), ret |-> TRUE]
        ELSE [cells |-> cs, ret |-> FALSE]

replace(b, cs, coord, value) ==
    LET cell == get_mut(b, cs, coord)
    IN  IF cell.some
        THEN [cells |-> WriteCell(cs, cell.val, value), ret |-> Some(cs[cell.val + 1])]
        ELSE [cells |-> cs, ret |-> None]

take(b, cs, coord) ==
    LET cell == get_mut(b, cs, coord)
    IN  IF cell.some
        THEN [cells |-> WriteCell(cs, cell.val, Default), ret |-> Some(cs[cell.val + 1])]
        ELSE [cells |-> cs, ret |-> None]

copy(b, cs, src, dest) ==
    LET src_index  == coord_to_index(b, src)
        dest_index == coord_to_index(b, dest)
    IN  IF src_index.some /\ dest_index.some
        THEN [cells |-> copy_within(cs, src_index.val, dest_index.val), ret |-> TRUE]
        ELSE [cells |-> cs, ret |-> FALSE]

swap(b, cs, coord1, coord2) ==
    LET index1 == coord_to_index(b, coord1)
        index2 == coord_to_index(b, coord2)
    IN  IF index1.some /\ index2.some
        THEN [cells |-> VecSwap(cs, index1.val, index2.val), ret |-> TRUE]
        ELSE [cells |-> cs, ret |-> FALSE]

\* mov that checks only src before it mutates.
M_mov_checks_src_only(b, cs, src, dest) ==
    IF ~contains(b, src) THEN [cells |-> cs, ret |-> None]
    ELSE LET taken     == take(b, cs, src)
             src_value == taken.ret.val
         IN  replace(b, taken.cells, dest, src_value)

mov(b, cs, src, dest) ==
    IF ~(contains(b, src) /\ contains(b, dest)) THEN [cells |-> cs, ret |-> None]
    ELSE LET taken     == take(b, cs, src)
             src_value == taken.ret.val
         IN  replace(b, taken.cells, dest, src_value)

\* new that allocates width * width cells.
M_VecGrid_new_square(b) == [i \in 1..(width(b) * width(b)) |-> Default]

VecGrid_new(b) == [i \in 1..area(b) |-> Default]

(***************************************************************************)
(* Neighborhood                                                            *)
(***************************************************************************)
ORTHO_NEIGHBOR_OFFSETS == <<Coord(0, 1), Coord(1, 0), Coord(0, -1), Coord(-1, 0)>>

iter_ortho(coord) == [i \in 1..4 |-> CoordAdd(coord, ORTHO_NEIGHBOR_OFFSETS[i])]

(***************************************************************************)
(* The iterators' next()                                                   *)
(***************************************************************************)
Ok(coord, cell) == [tag |-> "Ok", coord |-> coord, cell |-> cell]

OutOfBounds(coord) == [tag |-> "OutOfBounds", coord |-> coord]

AlreadyVisited(coord) == [tag |-> "AlreadyVisited", coord |-> coord]

\* SelectionIter::next that looks the cell up with x and y exchanged.
M_SelectionIter_next_flipped(b, cs, coord) ==
    LET cell == get(b, cs, Coord(coord.y, coord.x))
    IN  IF cell.some THEN Ok(coord, cell.val) ELSE OutOfBounds(coord)

\* SelectionIter::next for the coordinate `coords.next()` gave.
SelectionIter_next(b, cs, coord) ==
    LET cell == get(b, cs, coord)
    IN  IF cell.some THEN Ok(coord, cell.val) ELSE OutOfBounds(coord)

\* SelectionIterMut::next that never records the coordinate it hands out.
M_SelectionIterMut_next_no_insert(b, cs, visited, coord) ==
    IF coord \in visited THEN [item |-> AlreadyVisited(coord), visited |-> visited]
    ELSE LET cell == get_mut(b, cs, coord)
         IN  IF cell.some
             THEN [item |-> Ok(coord, cell.val), visited |-> visited]
             ELSE [item |-> OutOfBounds(coord), visited |-> visited]

\* SelectionIterMut::next that records every coordinate it is given, in bounds or not.
M_SelectionIterMut_next_marks_all(b, cs, visited, coord) ==
    IF coord \in visited THEN [item |-> AlreadyVisited(coord), visited |-> visited]
    ELSE LET cell == get_mut(b, cs, coord)
         IN  IF cell.some
             THEN [item |-> Ok(coord, cell.val), visited |-> visited \cup {coord}]
             ELSE [item |-> OutOfBounds(coord), visited |-> visited \cup {coord}]

\* SelectionIterMut::next for the coordinate `coords.next()` gave: the item and
\* the visited set afterwards. An Ok item carries the handle (the cell's index).
SelectionIterMut_next(b, cs, visited, coord) ==
    IF coord \in visited THEN [item |-> AlreadyVisited(coord), visited |-> visited]
    ELSE LET cell == get_mut(b, cs, coord)
         IN  IF cell.some
             THEN [item |-> Ok(coord, cell.val), visited |-> visited \cup {coord}]
             ELSE [item |-> OutOfBounds(coord), visited |-> visited]

\* The neighbour filter without its look at coords_to_search.
M_FloodKeep_ignores_queue(b, searched, queue, coord) ==
    ~(coord \in Range(searched)) /\ contains(b, coord)

\* The filter without its look at searched_coords.
M_FloodKeep_ignores_searched(b, searched, queue, coord) ==
    ~(coord \in Range(queue)) /\ contains(b, coord)

\* The filter FloodIter::next applies to the neighbours of an included coordinate.
FloodKeep(b, searched, queue, coord) ==
    ~(coord \in Range(searched) \/ coord \in Range(queue)) /\ contains(b, coord)

RECURSIVE FloodIter_next(_, _, _, _, _)
\* FloodIter::next that pushes the neighbours to the front of the queue.
M_FloodIter_next_push_front(b, cs, accepts, searched, queue) ==
    IF Len(queue) = 0 THEN [ret |-> None, searched |-> searched, queue |-> queue]
    ELSE LET coord    == Head(queue)
             popped   == Tail(queue)
             cell     == get(b, cs, coord)
             is_cell_included == IF cell.some THEN cell.val \in accepts ELSE FALSE
             pushed   == Append(searched, coord)
             Keep(n)  == FloodKeep(b, pushed, popped, n)
             neighbor_coords == SelectSeq(iter_ortho(coord), Keep)
         IN  IF ~is_cell_included
             THEN FloodIter_next(b, cs, accepts, pushed, popped)
             ELSE [ret      |-> Some([coord |-> coord, cell |-> cell.val]),
                   searched |-> pushed,
                   queue    |-> neighbor_coords \o popped]

\* FloodIter::next: the while loop, to its return.
FloodIter_next(b, cs, accepts, searched, queue) ==
    IF Len(queue) = 0 THEN [ret |-> None, searched |-> searched, queue |-> queue]
    ELSE LET coord    == Head(queue)
             popped   == Tail(queue)
             cell     == get(b, cs, coord)
             is_cell_included == IF cell.some THEN cell.val \in accepts ELSE FALSE
             pushed   == Append(searched, coord)
             Keep(n)  == FloodKeep(b, pushed, popped, n)
             neighbor_coords == SelectSeq(iter_ortho(coord), Keep)
         IN  IF ~is_cell_included
             THEN FloodIter_next(b, cs, accepts, pushed, popped)
             ELSE [ret      |-> Some([coord |-> coord, cell |-> cell.val]),
                   searched |-> pushed,
                   queue    |-> popped \o neighbor_coords]

(***************************************************************************)
(* The calls a program makes, and the inputs the model draws for them.     *)
(***************************************************************************)
Call(op, a, b, v, ret, pre) ==
    [op |-> op, a |-> a, b |-> b, v |-> v, ret |-> ret, pre |-> pre]

NoCall == Call("none", None, None, None, None, <<>>)

NoGen == [f |-> [kind |-> "none"], x |-> 0, y |-> 0, calls |-> <<>>]

\* The coordinates a call is tried with: the rows and columns at, just inside
\* and just outside the edges, and the middle ones (every coordinate of the
\* rect and of the ring around it when the rect is at most 3 wide and high).
Probe(b) ==
    {Coord(x, y) : x \in {b.left - 1, b.left, b.left + width(b) \div 2, b.right - 1, b.right},
                   y \in {b.top - 1, b.top, b.top + height(b) \div 2, b.bottom - 1, b.bottom}}

\* Every coordinate of the rect and of the ring around it.
Box(b) == {Coord(x, y) : x \in (b.left - 1)..b.right, y \in (b.top - 1)..b.bottom}

\* The generator closures the model constructs grids with.
Apply(f, coord) ==
    CASE f.kind = "ident" -> coord
      [] f.kind = "set"   -> IF coord \in f.on THEN 1 ELSE 0
      [] f.kind = "sum"   -> (coord.x + coord.y + 16) % (MaxVal + 1)

\* No pattern value, iterator or tree is alive.
NoObj == [kind |-> "none"]

NoIter == [kind |-> "none"]

NoTree == [kind |-> "none"]

PatternIdle == obj = NoObj /\ iter = NoIter /\ tree = NoTree /\ pulled = 0

PatternUnchanged == UNCHANGED <<obj, iter, tree, pulled>>

IterIdle ==
    /\ coords_in = <<>> /\ items = <<>> /\ visited_coords = {}
    /\ searched_coords = <<>> /\ coords_to_search = <<>> /\ predicate = {}
    /\ PatternIdle

IterUnchanged ==
    /\ UNCHANGED <<coords_in, items, visited_coords, searched_coords, coords_to_search, predicate>>
    /\ PatternUnchanged

IterReset ==
    /\ coords_in' = <<>> /\ items' = <<>> /\ visited_coords' = {}
    /\ searched_coords' = <<>> /\ coords_to_search' = <<>> /\ predicate' = {}
    /\ PatternUnchanged

(***************************************************************************)
(* Construction                                                            *)
(***************************************************************************)
\* VecGrid::new(b)
InitNew(b) ==
    /\ bounds = b
    /\ cells = VecGrid_new(b)
    /\ pc = "idle"
    /\ gen = NoGen
    /\ last = Call("new", None, None, None, None, <<>>)
    /\ IterIdle

\* VecGrid::with_generator(b, f) on entry: the Vec is empty, the loops are at their start.
InitGen(b, f) ==
    /\ bounds = b
    /\ cells = <<>>
    /\ pc = "gen"
    /\ gen = [f |-> f, x |-> b.left, y |-> b.top, calls |-> <<>>]
    /\ last = NoCall
    /\ IterIdle

\* The loop body building Coord::new(y, x).
M_GenCoord_flipped(g) == Coord(g.y, g.x)

\* The coordinate the loop body of with_generator builds.
GenCoord(g) == Coord(g.x, g.y)

\* One pass through the inner loop body: cells.push(generator(coord)).
GenPush ==
    /\ pc = "gen"
    /\ gen.y < bounds.bottom
    /\ gen.x < bounds.right
    /\ cells' = Append(cells, Apply(gen.f, GenCoord(gen)))
    /\ gen' = [gen EXCEPT !.x = gen.x + 1, !.calls = Append(gen.calls, GenCoord(gen))]
    /\ UNCHANGED <<bounds, pc, last>>
    /\ IterUnchanged

\* The inner loop is exhausted: the outer loop takes the next y.
GenNextRow ==
    /\ pc = "gen"
    /\ gen.y < bounds.bottom
    /\ gen.x >= bounds.right
    /\ gen' = [gen EXCEPT !.x = bounds.left, !.y = gen.y + 1]
    /\ UNCHANGED <<bounds, cells, pc, last>>
    /\ IterUnchanged

\* The outer loop is exhausted: Self { cells, bounds } is returned.
GenFinish ==
    /\ pc = "gen"
    /\ gen.y >= bounds.bottom
    /\ pc' = "idle"
    /\ last' = Call("with_generator", None, None, None, None, <<>>)
    /\ UNCHANGED <<bounds, cells, gen>>
    /\ IterUnchanged

(***************************************************************************)
(* The index mapping, applied on its own                                   *)
(***************************************************************************)
CoordToIndex(coord) ==
    /\ pc = "index"
    /\ last' = Call("coord_to_index", coord, None, None, coord_to_index(bounds, coord), <<>>)
    /\ UNCHANGED <<bounds, cells, pc, gen>>
    /\ IterUnchanged

\* index_to_coord of the index coord_to_index has just returned.
IndexToCoord ==
    /\ pc = "index"
    /\ last.op = "coord_to_index"
    /\ last.ret.some
    /\ last' = Call("index_to_coord", last.a, last.ret.val, None,
                    index_to_coord(bounds, last.ret.val), <<>>)
    /\ UNCHANGED <<bounds, cells, pc, gen>>
    /\ IterUnchanged

(***************************************************************************)
(* Calls on an idle grid                                                   *)
(***************************************************************************)
Get(coord) ==
    /\ pc = "idle"
    /\ pc' = "called"
    /\ last' = Call("get", coord, None, None, get(bounds, cells, coord), cells)
    /\ UNCHANGED <<bounds, cells, gen>>
    /\ IterUnchanged

GetMut(coord) ==
    /\ pc = "idle"
    /\ pc' = "called"
    /\ last' = Call("get_mut", coord, None, None, get_mut(bounds, cells, coord), cells)
    /\ UNCHANGED <<bounds, cells, gen>>
    /\ IterUnchanged

\* A mutator's result r becomes the grid's cells and the call's record.
Mutate(op, a, b, v, r) ==
    /\ pc = "idle"
    /\ pc' = "called"
    /\ cells' = r.cells
    /\ last' = Call(op, a, b, v, r.ret, cells)
    /\ UNCHANGED <<bounds, gen>>
    /\ IterUnchanged

\* The caller has taken the call's return value and goes on.
Return ==
    /\ pc = "called"
    /\ pc' = "idle"
    /\ last' = NoCall
    /\ UNCHANGED <<bounds, cells, gen>>
    /\ IterUnchanged

Set(coord, value) == Mutate("set", coord, None, value, set(bounds, cells, coord, value))

Replace(coord, value) ==
    Mutate("replace", coord, None, value, replace(bounds, cells, coord, value))

Take(coord) == Mutate("take", coord, None, None, take(bounds, cells, coord))

Copy(src, dest) == Mutate("copy", src, dest, None, copy(bounds, cells, src, dest))

Swap(coord1, coord2) == Mutate("swap", coord1, coord2, None, swap(bounds, cells, coord1, coord2))

Mov(src, dest) == Mutate("mov", src, dest, None, mov(bounds, cells, src, dest))

(***************************************************************************)
(* selection_iter                                                          *)
(***************************************************************************)
SelStart ==
    /\ pc = "idle"
    /\ pc' = "sel"
    /\ last' = Call("selection_iter", None, None, None, None, cells)
    /\ IterReset
    /\ UNCHANGED <<bounds, cells, gen>>

\* next() when `coords` yields `coord`.
SelNext(coord) ==
    /\ pc = "sel"
    /\ Len(coords_in) < MaxSel
    /\ coords_in' = Append(coords_in, coord)
    /\ items' = Append(items, SelectionIter_next(bounds, cells, coord))
    /\ UNCHANGED <<bounds, cells, pc, gen, last, visited_coords, searched_coords,
                   coords_to_search, predicate>>
    /\ PatternUnchanged

\* `coords` is exhausted: next() returns None and the iterator is dropped.
SelEnd ==
    /\ pc = "sel"
    /\ pc' = "idle"
    /\ last' = Call("selection_iter_end", None, None, None, None, <<>>)
    /\ IterReset
    /\ UNCHANGED <<bounds, cells, gen>>

(***************************************************************************)
(* selection_iter_mut                                                      *)
(***************************************************************************)
SelMutStart ==
    /\ pc = "idle"
    /\ pc' = "selmut"
    /\ last' = Call("selection_iter_mut", None, None, None, None, cells)
    /\ IterReset
    /\ UNCHANGED <<bounds, cells, gen>>

\* next() when `coords` yields `coord`.
SelMutNext(coord) ==
    /\ pc = "selmut"
    /\ Len(coords_in) < MaxSel
    /\ LET r == SelectionIterMut_next(bounds, cells, visited_coords, coord)
       IN  /\ items' = Append(items, r.item)
           /\ visited_coords' = r.visited
    /\ coords_in' = Append(coords_in, coord)
    /\ UNCHANGED <<bounds, cells, pc, gen, last, searched_coords, coords_to_search, predicate>>
    /\ PatternUnchanged

\* The caller writes through the handle of the k-th item: `*res_cell.unwrap().1 = value`.
WriteHandle(k, value) ==
    /\ pc = "selmut"
    /\ k \in DOMAIN items
    /\ items[k].tag = "Ok"
    /\ cells' = WriteCell(cells, items[k].cell, value)
    /\ UNCHANGED <<bounds, pc, gen, last>>
    /\ IterUnchanged

\* `coords` is exhausted: next() returns None and the iterator is dropped.
SelMutEnd ==
    /\ pc = "selmut"
    /\ pc' = "idle"
    /\ last' = Call("selection_iter_mut_end", None, None, None, None, <<>>)
    /\ IterReset
    /\ UNCHANGED <<bounds, cells, gen>>

(***************************************************************************)
(* flood_iter                                                              *)
(***************************************************************************)
FloodStart(starting_coord, accepts) ==
    /\ pc = "idle"
    /\ pc' = "flood"
    /\ last' = Call("flood_iter", starting_coord, None, None, None, cells)
    /\ coords_to_search' = <<starting_coord>>
    /\ searched_coords' = <<>>
    /\ predicate' = accepts
    /\ coords_in' = <<>> /\ items' = <<>> /\ visited_coords' = {}
    /\ UNCHANGED <<bounds, cells, gen>>
    /\ PatternUnchanged

FloodNext ==
    /\ pc = "flood"
    /\ LET r == FloodIter_next(bounds, cells, predicate, searched_coords, coords_to_search)
       IN  /\ searched_coords' = r.searched
           /\ coords_to_search' = r.queue
           /\ items' = IF r.ret.some THEN Append(items, r.ret.val) ELSE items
           /\ last' = Call("flood_next", last.a, None, None, r.ret, last.pre)
    /\ UNCHANGED <<bounds, cells, pc, gen, coords_in, visited_coords, predicate>>
    /\ PatternUnchanged

\* The iterator is dropped.
FloodEnd ==
    /\ pc = "flood"
    /\ pc' = "idle"
    /\ last' = Call("flood_iter_end", None, None, None, None, <<>>)
    /\ IterReset
    /\ UNCHANGED <<bounds, cells, gen>>

(***************************************************************************)
(* Specifications                                                          *)
(***************************************************************************)
\* The grids the mutators are exercised on.
GridRects ==
    {Rect_new(Coord(2, 2)),
     Rect_with_corners(Coord(1, 1), Coord(-1, -1)),
     Rect_with_corners(Coord(-1, 1), Coord(1, 2)),
     Rect_with_corners(Coord(1, -2), Coord(2, 0)),
     Rect_new(Coord(0, 0))}

Init ==
    \E b \in GridRects : InitNew(b) \/ InitGen(b, [kind |-> "sum"])

Next ==
    \/ GenPush
    \/ GenNextRow
    \/ GenFinish
    \/ pc = "idle" /\ \E coord \in Probe(bounds) : Get(coord)
    \/ pc = "idle" /\ \E coord \in Probe(bounds) : GetMut(coord)
    \/ pc = "idle" /\ \E coord \in Probe(bounds), value \in Vals : Set(coord, value)
    \/ pc = "idle" /\ \E coord \in Probe(bounds), value \in Vals : Replace(coord, value)
    \/ pc = "idle" /\ \E coord \in Probe(bounds) : Take(coord)
    \/ pc = "idle" /\ \E src \in Probe(bounds), dest \in Probe(bounds) : Copy(src, dest)
    \/ pc = "idle" /\ \E coord1 \in Probe(bounds), coord2 \in Probe(bounds) : Swap(coord1, coord2)
    \/ pc = "idle" /\ \E src \in Probe(bounds), dest \in Probe(bounds) : Mov(src, dest)
    \/ Return

Spec == Init /\ [][Next]_vars

\* The index mapping alone, over small rects of every shape and offset and
\* over two rects of more than 2^24 cells.
LargeRects ==
    {Rect_with_corners(Coord(0, 0), Coord(1, 16777218)), Rect_new(Coord(4096, 4097))}

IndexRects ==
    {Rect_with_corners(Coord(x1, y1), Coord(x2, y2)) :
        x1 \in -MaxCorner..MaxCorner, y1 \in -MaxCorner..MaxCorner,
        x2 \in -MaxCorner..MaxCorner, y2 \in -MaxCorner..MaxCorner}
    \cup LargeRects

IndexCoords(b) == IF b \in LargeRects THEN Probe(b) ELSE Box(b)

InitIndex ==
    /\ bounds \in IndexRects
    /\ cells = <<>>
    /\ pc = "index"
    /\ gen = NoGen
    /\ last = NoCall
    /\ IterIdle

NextIndex ==
    \/ pc = "index" /\ \E coord \in IndexCoords(bounds) : CoordToIndex(coord)
    \/ IndexToCoord

SpecIndex == InitIndex /\ [][NextIndex]_vars

\* Grids built by with_generator from the identity closure (every cell holds
\* its own coordinate), then read.
GenRects ==
    {Rect_new(Coord(8, 8)),
     Rect_new(Coord(8, 4)),
     Rect_with_corners(Coord(2, 2), Coord(-1, 0)),
     Rect_with_corners(Coord(-3, 1), Coord(-1, 4)),
     Rect_new(Coord(1, 1)),
     Rect_new(Coord(0, 0)),
     Rect_with_corners(Coord(1, 0), Coord(1, 2))}

InitGenRead == \E b \in GenRects : InitGen(b, [kind |-> "ident"])

NextGen ==
    \/ GenPush
    \/ GenNextRow
    \/ GenFinish
    \/ pc = "idle" /\ \E coord \in Probe(bounds) : Get(coord)
    \/ pc = "idle" /\ \E coord \in Probe(bounds) : GetMut(coord)
    \/ Return

SpecGen == InitGenRead /\ [][NextGen]_vars

\* selection_iter over grids built from the identity closure.
SelRects ==
    {Rect_with_corners(Coord(2, 2), Coord(-1, 0)),
     Rect_new(Coord(2, 2)),
     Rect_with_corners(Coord(1, -2), Coord(2, 0))}

InitSel == \E b \in SelRects : InitGen(b, [kind |-> "ident"])

NextSel ==
    \/ GenPush
    \/ GenNextRow
    \/ GenFinish
    \/ SelStart
    \/ pc = "sel" /\ \E coord \in Probe(bounds) : SelNext(coord)
    \/ SelEnd

SpecSel == InitSel /\ [][NextSel]_vars

\* selection_iter_mut over fresh grids; the caller writes `true` through
\* the handles it holds.
SelMutRects ==
    {Rect_new(Coord(2, 2)),
     Rect_with_corners(Coord(-1, 1), Coord(1, 2)),
     Rect_new(Coord(0, 0))}

InitSelMut == \E b \in SelMutRects : InitNew(b)

NextSelMut ==
    \/ SelMutStart
    \/ pc = "selmut" /\ \E coord \in Probe(bounds) : SelMutNext(coord)
    \/ pc = "selmut" /\ \E k \in 1..MaxSel : WriteHandle(k, 1)
    \/ SelMutEnd

SpecSelMut == InitSelMut /\ [][NextSelMut]_vars

\* flood_iter over every boolean pattern of a 3x3 grid, over the all-true
\* 4x4 grid, and over an empty grid.
FloodRect == Rect_with_corners(Coord(-1, -1), Coord(2, 2))

Contained(b) == {c \in Box(b) : contains(b, c)}

InitFlood ==
    \/ \E on \in SUBSET Contained(FloodRect) : InitGen(FloodRect, [kind |-> "set", on |-> on])
    \/ InitGen(Rect_new(Coord(4, 4)), [kind |-> "set", on |-> Contained(Rect_new(Coord(4, 4)))])
    \/ InitNew(Rect_new(Coord(0, 0)))

NextFlood ==
    \/ GenPush
    \/ GenNextRow
    \/ GenFinish
    \/ pc = "idle" /\ \E starting_coord \in Probe(bounds), accepts \in {{1}, {0}} :
          FloodStart(starting_coord, accepts)
    \/ FloodNext
    \/ FloodEnd

SpecFlood == InitFlood /\ [][NextFlood]_vars

\* Every operation of VecGrid, in any order, on grids of at most two cells.
TinyRects ==
    {Rect_with_corners(Coord(1, -2), Coord(2, 0)),
     Rect_new(Coord(1, 1)),
     Rect_new(Coord(0, 0))}

InitAll ==
    \E b \in TinyRects : InitNew(b) \/ InitGen(b, [kind |-> "sum"])

NextAll ==
    \/ Next
    \/ SelStart
    \/ pc = "sel" /\ \E coord \in Probe(bounds) : SelNext(coord)
    \/ SelEnd
    \/ SelMutStart
    \/ pc = "selmut" /\ \E coord \in Probe(bounds) : SelMutNext(coord)
    \/ pc = "selmut" /\ \E k \in 1..MaxSel, value \in Vals : WriteHandle(k, value)
    \/ SelMutEnd
    \/ pc = "idle" /\ \E starting_coord \in Probe(bounds), accepts \in SUBSET Vals :
          FloodStart(starting_coord, accepts)
    \/ FloodNext
    \/ FloodEnd

SpecAll == InitAll /\ [][NextAll]_vars

(***************************************************************************)
(* Patterns: Rect construction, partition and iteration                    *)
(***************************************************************************)
\* No grid is alive while a program works on patterns only. Such a program
\* builds one pattern value and then works on it.
GridUnchanged ==
    UNCHANGED <<bounds, cells, gen, coords_in, visited_coords, searched_coords,
                coords_to_search, predicate>>

PatternInit(p) ==
    /\ bounds = NoObj
    /\ cells = <<>>
    /\ pc = p
    /\ gen = NoGen
    /\ last = NoCall
    /\ IterIdle

\* Rect::with_corners(corner1, corner2)
RectWithCorners(corner1, corner2) ==
    /\ pc = "rect"
    /\ obj = NoObj
    /\ obj' = [kind |-> "Rect", rect |-> Rect_with_corners(corner1, corner2),
               corner1 |-> corner1, corner2 |-> corner2]
    /\ UNCHANGED <<pc, last, items, iter, tree, pulled>>
    /\ GridUnchanged

\* Rect::new(dimensions)
RectNew(dimensions) ==
    /\ pc = "rect"
    /\ obj = NoObj
    /\ obj' = [kind |-> "Rect", rect |-> Rect_new(dimensions),
               corner1 |-> Coord(0, 0), corner2 |-> dimensions]
    /\ UNCHANGED <<pc, last, items, iter, tree, pulled>>
    /\ GridUnchanged

\* VecGrid::new over the Rect just built.
VecGridNew ==
    /\ pc = "rect"
    /\ obj.kind = "Rect"
    /\ obj' = [kind |-> "VecGrid", bounds |-> obj.rect, cells |-> VecGrid_new(obj.rect)]
    /\ UNCHANGED <<pc, last, items, iter, tree, pulled>>
    /\ GridUnchanged

\* Grid::new(dimensions, off) of grid.rs; a panic ends the program.
GridNew(dimensions, off) ==
    /\ pc = "rect"
    /\ obj = NoObj
    /\ obj' = Grid_new(dimensions, off)
    /\ pc' = IF obj'.kind = "panic" THEN "panicked" ELSE "rect"
    /\ UNCHANGED <<last, items, iter, tree, pulled>>
    /\ GridUnchanged

\* partition_horizontal(p) / partition_vertical(p) of the Rect just built.
Partition(axis, p) ==
    /\ pc = "rect"
    /\ obj.kind = "Rect"
    /\ obj' = [kind |-> "Parts", of |-> obj.rect, axis |-> axis, partition |-> p,
               parts |-> IF axis = "Horizontal" THEN partition_horizontal(obj.rect, p)
                         ELSE partition_vertical(obj.rect, p)]
    /\ UNCHANGED <<pc, last, items, iter, tree, pulled>>
    /\ GridUnchanged

PartitionHorizontal(p) == Partition("Horizontal", p)

PartitionVertical(p) == Partition("Vertical", p)

\* Rect::iter() of the Rect just built.
RectIterStart ==
    /\ pc = "rect"
    /\ obj.kind = "Rect"
    /\ pc' = "rect_iter"
    /\ iter' = Rect_iter(obj.rect)
    /\ UNCHANGED <<obj, last, items, tree, pulled>>
    /\ GridUnchanged

\* One call of RectIter::next.
RectIterNext ==
    /\ pc = "rect_iter"
    /\ LET r == RectIter_next(iter)
       IN  /\ iter' = r.iter
           /\ items' = IF r.ret.some THEN Append(items, r.ret.val) ELSE items
           /\ pulled' = IF r.ret.some THEN pulled + 1 ELSE pulled
           /\ last' = Call("RectIter::next", None, None, None, r.ret, <<>>)
    /\ UNCHANGED <<pc, obj, tree>>
    /\ GridUnchanged

\* The pattern iterator is dropped.
PatternIterEnd(back) ==
    /\ pc' = back
    /\ iter' = NoIter
    /\ items' = <<>>
    /\ pulled' = 0
    /\ last' = NoCall
    /\ UNCHANGED <<obj, tree>>
    /\ GridUnchanged

RectIterEnd == pc = "rect_iter" /\ PatternIterEnd("rect")

Corners == {Coord(x, y) : x \in -MaxCorner..MaxCorner, y \in -MaxCorner..MaxCorner}

InitRect == PatternInit("rect")

NextRect ==
    \/ pc = "rect" /\ \E corner1 \in Corners, corner2 \in Corners : RectWithCorners(corner1, corner2)
    \/ pc = "rect" /\ \E dimensions \in Corners : RectNew(dimensions)
    \/ VecGridNew
    \/ pc = "rect" /\ \E dimensions \in Corners, off \in {Coord(0, 0), Coord(-1, 2)} :
           GridNew(dimensions, off)
    \/ pc = "rect" /\ \E p \in -1..(2 * MaxCorner + 1) : PartitionHorizontal(p)
    \/ pc = "rect" /\ \E p \in -1..(2 * MaxCorner + 1) : PartitionVertical(p)
    \/ RectIterStart
    \/ RectIterNext
    \/ RectIterEnd

SpecRect == InitRect /\ [][NextRect]_vars

(***************************************************************************)
(* Patterns: binary space partition                                        *)
(***************************************************************************)
\* rect.bsp(orientation, &f) on the Rect just built.
Bsp(orientation, f) ==
    /\ pc = "rect"
    /\ obj.kind = "Rect"
    /\ pc' = "bsp"
    /\ tree' = [kind |-> "BspTree", orientation |-> orientation, f |-> f,
                root |-> bsp(obj.rect, orientation, f)]
    /\ UNCHANGED <<obj, last, items, iter, pulled>>
    /\ GridUnchanged

\* tree.leaves()
Leaves ==
    /\ pc = "bsp"
    /\ pc' = "bsp_done"
    /\ items' = leaves(tree.root)
    /\ last' = Call("leaves", None, None, None, None, <<>>)
    /\ UNCHANGED <<obj, iter, tree, pulled>>
    /\ GridUnchanged

\* The dimensions of the roots: every one up to MaxSide, and the 16x16 root
\* of tests::equally_subdivided_bsp.
BspDims == {Coord(x, y) : x \in 0..MaxSide, y \in 0..MaxSide} \cup {Coord(16, 16)}

\* The splitters a root is split with: min_size 4 is the one of
\* tests::equally_subdivided_bsp, and the only one for the roots beyond
\* MaxSide.
Splitters(r) ==
    {[kind |-> k, min_size |-> m] : k \in {"bisect", "low", "high"},
                                    m \in IF width(r) > MaxSide \/ height(r) > MaxSide
                                          THEN {} ELSE 1..MaxMinSize}
        \cup {[kind |-> "bisect", min_size |-> 4]}

NextBsp ==
    \/ pc = "rect" /\ \E dimensions \in BspDims : RectNew(dimensions)
    \/ pc = "rect" /\ \E corner2 \in BspDims : RectWithCorners(Coord(-1, 2), corner2)
    \/ pc = "rect" /\ obj.kind = "Rect"
          /\ \E orientation \in {"Horizontal", "Vertical"}, f \in Splitters(obj.rect) :
           Bsp(orientation, f)
    \/ Leaves

SpecBsp == InitRect /\ [][NextBsp]_vars

(***************************************************************************)
(* Patterns: Line                                                          *)
(***************************************************************************)
\* Line::new(from, to)
LineNew(from, to) ==
    /\ pc = "line"
    /\ obj = NoObj
    /\ obj' = Line_new(from, to)
    /\ UNCHANGED <<pc, last, items, iter, tree, pulled>>
    /\ GridUnchanged

\* line.iter()
LineIterStart ==
    /\ pc = "line"
    /\ obj.kind = "Line"
    /\ pc' = "line_iter"
    /\ iter' = Line_iter(obj)
    /\ UNCHANGED <<obj, last, items, tree, pulled>>
    /\ GridUnchanged

\* The caller keeps at most KeepCap items of a line: one more than the
\* longest line of the box has.
KeepCap == 2 * MaxCorner + 2

\* One call of LineIter::next, whose item the caller keeps.
LineNext ==
    /\ pc = "line_iter"
    /\ Len(items) < KeepCap
    /\ LET r == LineIter_next(iter)
       IN  /\ iter' = r.iter
           /\ items' = IF r.ret.some THEN Append(items, r.ret.val) ELSE items
           /\ pulled' = IF r.ret.some THEN pulled + 1 ELSE pulled
           /\ last' = Call("LineIter::next", None, None, None, r.ret, <<>>)
    /\ UNCHANGED <<pc, obj, tree>>
    /\ GridUnchanged

\* n calls of LineIter::next whose items the caller drops (at most once
\* per iterator).
LineSkip(n) ==
    /\ pc = "line_iter"
    /\ ~iter.is_finished
    /\ pulled = Len(items)
    /\ LET r == LineIter_advance(iter, n, 0)
       IN  /\ iter' = r.iter
           /\ pulled' = pulled + r.count
    /\ last' = Call("skip", None, None, n, None, <<>>)
    /\ UNCHANGED <<pc, obj, items, tree>>
    /\ GridUnchanged

LineIterEnd == pc = "line_iter" /\ PatternIterEnd("line")

\* A line whose major delta is 2^26: `fault` starts at 2^25, where f32
\* values are 2 apart.
LongLines == {Line_new(Coord(0, 0), Coord(67108864, 1))}

\* The endpoints the model draws: every pair of the box, the line
\* (0,0)-(3,0) of the spec's example, and the long line.
Lines ==
    {Line_new(from, to) : from \in Corners, to \in Corners}
        \cup {Line_new(Coord(0, 0), Coord(3, 0))} \cup LongLines

\* The items a line from `from` to `to` has by Bresenham's algorithm.
LineLength(l) == Max(abs(l.to.x - l.from.x), abs(l.to.y - l.from.y)) + 1

InitLine == PatternInit("line")

NextLine ==
    \/ pc = "line" /\ \E l \in Lines : LineNew(l.from, l.to)
    \/ LineIterStart
    \/ LineNext
    \/ pc = "line_iter" /\ \E n \in {1, LineLength(obj)} : LineSkip(n)
    \/ LineIterEnd

SpecLine == InitLine /\ [][NextLine]_vars

(***************************************************************************)
(* Patterns: Circle                                                        *)
(***************************************************************************)
\* Circle::new(center, radius)
CircleNew(center, radius) ==
    /\ pc = "circle"
    /\ obj = NoObj
    /\ obj' = Circle_new(center, radius)
    /\ UNCHANGED <<pc, last, items, iter, tree, pulled>>
    /\ GridUnchanged

\* circle.iter()
CircleIterStart ==
    /\ pc = "circle"
    /\ obj.kind = "Circle"
    /\ pc' = "circle_iter"
    /\ iter' = Circle_iter(obj)
    /\ UNCHANGED <<obj, last, items, tree, pulled>>
    /\ GridUnchanged

\* One call of CircleIter::next.
CircleNext ==
    /\ pc = "circle_iter"
    /\ LET r == CircleIter_next(iter)
       IN  /\ iter' = r.iter
           /\ items' = IF r.ret.some THEN Append(items, r.ret.val) ELSE items
           /\ pulled' = IF r.ret.some THEN pulled + 1 ELSE pulled
           /\ last' = Call("CircleIter::next", None, None, None, r.ret, <<>>)
    /\ UNCHANGED <<pc, obj, tree>>
    /\ GridUnchanged

CircleIterEnd == pc = "circle_iter" /\ PatternIterEnd("circle")

\* The centers: the origin, the one of examples/circle.rs and one with a
\* negative component.
Centers == {Coord(0, 0), Coord(9, 9), Coord(-1, 2)}

InitCircle == PatternInit("circle")

NextCircle ==
    \/ pc = "circle" /\ \E center \in Centers, radius \in 0..MaxRadius : CircleNew(center, radius)
    \/ CircleIterStart
    \/ CircleNext
    \/ CircleIterEnd

SpecCircle == InitCircle /\ [][NextCircle]_vars

(***************************************************************************)
(* Cluster: the layers of a set of coordinates                             *)
(***************************************************************************)
NEIGHBOR_OFFSETS ==
    <<Coord(0, 1), Coord(1, 1), Coord(1, 0), Coord(1, -1),
      Coord(0, -1), Coord(-1, -1), Coord(-1, 0), Coord(-1, 1)>>

\* Neighborhood::new(coord).into_iter(): the Moore neighbourhood, in the
\* order of NEIGHBOR_OFFSETS.
Neighborhood_into_iter(coord) ==
    [i \in 1..Len(NEIGHBOR_OFFSETS) |-> CoordAdd(coord, NEIGHBOR_OFFSETS[i])]

\* patterns::neighborhood(coord): the same eight coordinates.
neighborhood(coord) ==
    <<CoordAdd(coord, Coord(0, 1)), CoordAdd(coord, Coord(1, 1)),
      CoordAdd(coord, Coord(1, 0)), CoordAdd(coord, Coord(1, -1)),
      CoordAdd(coord, Coord(0, -1)), CoordAdd(coord, Coord(-1, -1)),
      CoordAdd(coord, Coord(-1, 0)), CoordAdd(coord, Coord(-1, 1))>>

\* The order in which a HashSet is iterated is unspecified: it is one of
\* these, drawn when the set is built.
HashOrders == {"row", "rev", "col"}

HashKey(c, h) ==
    CASE h = "row" -> (64 * c.y) + c.x
      [] h = "rev" -> 0 - ((64 * c.y) + c.x)
      [] h = "col" -> (64 * c.x) + c.y

RECURSIVE HashIter(_, _)
\* HashSet::iter(): every element once, in the order h.
HashIter(S, h) ==
    IF S = {} THEN <<>>
    ELSE LET c == CHOOSE e \in S : \A o \in S : HashKey(e, h) <= HashKey(o, h)
         IN  <<c>> \o HashIter(S \ {c}, h)

\* Cluster::new(iter): HashSet::from_iter.
Cluster_new(v, h) == [kind |-> "Cluster", set |-> Range(v), hash |-> h]

\* external_neighbors that looks at the orthogonal neighbours only.
M_external_neighbors_ortho(cluster, coord) ==
    SelectSeq(iter_ortho(coord), LAMBDA neighbor : neighbor \notin cluster.set)

\* Cluster::external_neighbors
external_neighbors(cluster, coord) ==
    SelectSeq(Neighborhood_into_iter(coord), LAMBDA neighbor : neighbor \notin cluster.set)

\* Cluster::iter_interior, collected
Cluster_iter_interior(cluster) ==
    SelectSeq(HashIter(cluster.set, cluster.hash),
              LAMBDA coord : ~(Len(external_neighbors(cluster, coord)) # 0))

\* Cluster::iter_internal_border, collected
Cluster_iter_internal_border(cluster) ==
    SelectSeq(HashIter(cluster.set, cluster.hash),
              LAMBDA coord : ~(Len(external_neighbors(cluster, coord)) = 0))

\* Cluster::iter_external_border
Cluster_iter_external_border(cluster) ==
    [kind                   |-> "ExternalBorderIter",
     cluster                |-> cluster,
     coords                 |-> HashIter(cluster.set, cluster.hash),
     external_border_coords |-> {},
     coords_to_return       |-> <<>>]

RECURSIVE PushNew(_, _)
\* The for loop of ExternalBorderIter::next over the external neighbours of
\* one coordinate.
PushNew(it, neighbors) ==
    IF neighbors = <<>> THEN it
    ELSE LET neighbor == Head(neighbors)
         IN  PushNew(IF neighbor \notin it.external_border_coords
                     THEN [it EXCEPT !.external_border_coords = @ \cup {neighbor},
                                     !.coords_to_return = Append(@, neighbor)]
                     ELSE it,
                     Tail(neighbors))

\* The while loop that pushes every found coordinate again.
RECURSIVE M_Drain_no_seen_check(_)
M_Drain_no_seen_check(it) ==
    IF it.coords = <<>> THEN it
    ELSE M_Drain_no_seen_check(
             [it EXCEPT !.coords = Tail(@),
                        !.external_border_coords =
                            @ \cup Range(external_neighbors(it.cluster, Head(it.coords))),
                        !.coords_to_return =
                            @ \o external_neighbors(it.cluster, Head(it.coords))])

RECURSIVE Drain(_)
\* The while loop of ExternalBorderIter::next: it runs `coords` to its end.
Drain(it) ==
    IF it.coords = <<>> THEN it
    ELSE Drain(PushNew([it EXCEPT !.coords = Tail(@)],
                       external_neighbors(it.cluster, Head(it.coords))))

\* ExternalBorderIter::next: the item returned and the iterator afterwards.
ExternalBorderIter_next(it) ==
    LET found == IF Len(it.coords_to_return) = 0 THEN Drain(it) ELSE it
    IN  IF Len(found.coords_to_return) > 0
        THEN [ret  |-> Some(Head(found.coords_to_return)),
              iter |-> [found EXCEPT !.coords_to_return = Tail(@)]]
        ELSE [ret |-> None, iter |-> found]

RECURSIVE ClusterLayersLoop(_, _, _)
\* The for loop of cluster_layers over the input vector.
ClusterLayersLoop(acc, cluster_set, cluster) ==
    IF cluster = <<>> THEN acc
    ELSE LET coord == Head(cluster)
             non_cluster_coords ==
                 SelectSeq(neighborhood(coord), LAMBDA neighbor : neighbor \notin cluster_set)
         IN  ClusterLayersLoop(
                 IF Len(non_cluster_coords) = 0
                 THEN [acc EXCEPT !.interior = @ \cup {coord}]
                 ELSE [acc EXCEPT !.internal_boundary = @ \cup {coord},
                                  !.external_boundary = @ \cup Range(non_cluster_coords)],
                 cluster_set, Tail(cluster))

\* patterns::cluster_layers(cluster)
cluster_layers(cluster, h) ==
    LET cluster_set == Range(cluster)
        sorted == ClusterLayersLoop(
                      [internal_boundary |-> {}, external_boundary |-> {}, interior |-> {}],
                      cluster_set, cluster)
    IN  [kind            |-> "ClusterLayers",
         internal_border |-> HashIter(sorted.internal_boundary, h),
         external_border |-> HashIter(sorted.external_boundary, h),
         interior        |-> HashIter(sorted.interior, h)]

\* Cluster::new(v.into_iter())
ClusterNew(v, h) ==
    /\ pc = "cluster"
    /\ obj = NoObj
    /\ obj' = Cluster_new(v, h)
    /\ last' = Call("Cluster::new", v, None, None, None, <<>>)
    /\ UNCHANGED <<pc, items, iter, tree, pulled>>
    /\ GridUnchanged

\* What a program has collected from the two filtering iterators of a Cluster.
Collected(t, field, v) ==
    [[kind |-> "Layers",
      interior |-> IF t.kind = "Layers" THEN t.interior ELSE None,
      internal_border |-> IF t.kind = "Layers" THEN t.internal_border ELSE None]
     EXCEPT ![field] = Some(v)]

\* cluster.iter_interior().collect()
IterInterior ==
    /\ pc = "cluster"
    /\ obj.kind = "Cluster"
    /\ tree' = Collected(tree, "interior", Cluster_iter_interior(obj))
    /\ last' = Call("Cluster::iter_interior", None, None, None, None, <<>>)
    /\ UNCHANGED <<pc, obj, items, iter, pulled>>
    /\ GridUnchanged

\* cluster.iter_internal_border().collect()
IterInternalBorder ==
    /\ pc = "cluster"
    /\ obj.kind = "Cluster"
    /\ tree' = Collected(tree, "internal_border", Cluster_iter_internal_border(obj))
    /\ last' = Call("Cluster::iter_internal_border", None, None, None, None, <<>>)
    /\ UNCHANGED <<pc, obj, items, iter, pulled>>
    /\ GridUnchanged

\* cluster.iter_external_border()
ExternalBorderStart ==
    /\ pc = "cluster"
    /\ obj.kind = "Cluster"
    /\ pc' = "cluster_border"
    /\ iter' = Cluster_iter_external_border(obj)
    /\ last' = NoCall
    /\ UNCHANGED <<obj, items, tree, pulled>>
    /\ GridUnchanged

\* One call of ExternalBorderIter::next.
ExternalBorderNext ==
    /\ pc = "cluster_border"
    /\ LET r == ExternalBorderIter_next(iter)
       IN  /\ iter' = r.iter
           /\ items' = IF r.ret.some THEN Append(items, r.ret.val) ELSE items
           /\ pulled' = IF r.ret.some THEN pulled + 1 ELSE pulled
           /\ last' = Call("ExternalBorderIter::next", None, None, None, r.ret, <<>>)
    /\ UNCHANGED <<pc, obj, tree>>
    /\ GridUnchanged

ExternalBorderEnd == pc = "cluster_border" /\ PatternIterEnd("cluster")

\* cluster_layers(v)
ClusterLayers(v, h) ==
    /\ pc = "cluster"
    /\ obj = NoObj
    /\ obj' = cluster_layers(v, h)
    /\ last' = Call("cluster_layers", v, None, None, None, <<>>)
    /\ UNCHANGED <<pc, items, iter, tree, pulled>>
    /\ GridUnchanged

\* The clusters: every set of coordinates of a box MaxClusterWidth wide and
\* three high that has the origin at its top left corner.
ClusterSets == SUBSET {Coord(x, y) : x \in 0..(MaxClusterWidth - 1), y \in 0..2}

\* The vectors a cluster is built from: its coordinates row by row, once or
\* followed by the same coordinates again.
ClusterVecs ==
    {HashIter(S, "row") : S \in ClusterSets}
        \cup {HashIter(S, "row") \o HashIter(S, "col") : S \in ClusterSets}

InitCluster == PatternInit("cluster")

NextCluster ==
    \/ pc = "cluster" /\ obj = NoObj /\ \E v \in ClusterVecs, h \in HashOrders : ClusterNew(v, h)
    \/ pc = "cluster" /\ obj = NoObj /\ \E v \in ClusterVecs, h \in HashOrders : ClusterLayers(v, h)
    \/ IterInterior
    \/ IterInternalBorder
    \/ ExternalBorderStart
    \/ ExternalBorderNext
    \/ ExternalBorderEnd

SpecCluster == InitCluster /\ [][NextCluster]_vars

(***************************************************************************)
(* Rect::bsp, call by call: the calls of the recursion that are still to   *)
(* be made, with the splitter of examples/dungeon.rs drawing any offset.   *)
(***************************************************************************)
\* The splitter of examples/dungeon.rs without its refusal of a Rect that is
\* too small.
M_dungeon_splitter_never_refuses(min_size, r, orientation, drawn) ==
    Some([partition |-> drawn, next |-> orthogonal(orientation)])

\* The splitter of examples/dungeon.rs; `drawn` is what gen_range gives,
\* a value of min_size..=max_size.
dungeon_splitter(min_size, r, orientation, drawn) ==
    LET dimension == IF orientation = "Horizontal" THEN width(r) ELSE height(r)
        max_size  == dimension - min_size
    IN  IF max_size - min_size <= 0 THEN None
        ELSE Some([partition |-> drawn, next |-> orthogonal(orientation)])

\* What gen_range(min_size..=max_size) may give for the call that is made next.
Draws(it) ==
    IF it.pending = <<>> THEN {}
    ELSE LET call      == Head(it.pending)
             dimension == IF call.orientation = "Horizontal"
                          THEN width(call.rect) ELSE height(call.rect)
         IN  IF dimension - it.min_size < it.min_size THEN {it.min_size}
             ELSE it.min_size..(dimension - it.min_size)

\* One call of bsp: the splitter is asked, and a split Rect leaves the calls
\* on its two parts to be made, the left or bottom one first.
bsp_call(it, drawn) ==
    LET call  == Head(it.pending)
        split == dungeon_splitter(it.min_size, call.rect, call.orientation, drawn)
    IN  IF split.some
        THEN LET parts == IF call.orientation = "Horizontal"
                          THEN partition_horizontal(call.rect, split.val.partition)
                          ELSE partition_vertical(call.rect, split.val.partition)
             IN  [it EXCEPT !.pending = <<[rect |-> parts[1], orientation |-> split.val.next],
                                          [rect |-> parts[2], orientation |-> split.val.next]>>
                                        \o Tail(@),
                            !.nodes = @ + 1]
        ELSE [it EXCEPT !.pending = Tail(@), !.leaves = @ + 1]

\* rect.bsp(orientation, splitter) is entered.
BspEnter(orientation, min_size) ==
    /\ pc = "rect"
    /\ obj.kind = "Rect"
    /\ pc' = "bsp_call"
    /\ iter' = [kind |-> "bsp", min_size |-> min_size, nodes |-> 0, leaves |-> 0,
                pending |-> <<[rect |-> obj.rect, orientation |-> orientation]>>]
    /\ UNCHANGED <<obj, last, items, tree, pulled>>
    /\ GridUnchanged

\* The next call of the recursion.
BspCall(drawn) ==
    /\ pc = "bsp_call"
    /\ iter.pending # <<>>
    /\ iter' = bsp_call(iter, drawn)
    /\ UNCHANGED <<pc, obj, last, items, tree, pulled>>
    /\ GridUnchanged

\* bsp returns its tree.
BspReturn ==
    /\ pc = "bsp_call"
    /\ iter.pending = <<>>
    /\ pc' = "bsp_done"
    /\ UNCHANGED <<obj, last, items, iter, tree, pulled>>
    /\ GridUnchanged

NextBspCall ==
    \/ pc = "rect" /\ \E x \in 0..MaxSide, y \in 0..MaxSide : RectNew(Coord(x, y))
    \/ pc = "rect" /\ \E orientation \in {"Horizontal", "Vertical"}, min_size \in 1..MaxMinSize :
          BspEnter(orientation, min_size)
    \/ pc = "bsp_call" /\ \E drawn \in Draws(iter) : BspCall(drawn)
    \/ BspReturn

\* A call that has been entered goes on until it returns.
SpecBspCall ==
    /\ InitRect
    /\ [][NextBspCall]_vars
    /\ WF_vars(pc = "bsp_call" /\ \E drawn \in Draws(iter) : BspCall(drawn))
    /\ WF_vars(BspReturn)

(***************************************************************************)
(* Grid of grid.rs: cells, dimensions and offset                           *)
(***************************************************************************)
\* RectBounds::contains: both ends of both ranges are inside (the Rect of
\* rect.rs, whose corners are inclusive and whose bottom is its least y).
RectBounds_contains(b, coord) ==
    /\ coord.x >= b.left
    /\ coord.x <= b.right
    /\ coord.y >= b.bottom
    /\ coord.y <= b.top

\* Grid::bounds
Grid_bounds(g) ==
    [top    |-> g.dimensions.y - g.offset.y - 1,
     bottom |-> g.offset.y,
     left   |-> g.offset.x,
     right  |-> g.dimensions.x - g.offset.x - 1]

\* Grid::coord_in_bounds
Grid_coord_in_bounds(g, coord) == RectBounds_contains(Grid_bounds(g), coord)

\* Grid::coord_to_index
Grid_coord_to_index(g, coord) ==
    IF ~Grid_coord_in_bounds(g, coord) THEN None
    ELSE LET offset_coord == CoordSub(coord, g.offset)
         IN  Some(offset_coord.x + offset_coord.y * g.dimensions.x)

\* Grid::index_to_coord
Grid_index_to_coord(g, index) ==
    LET y == F32DivFloor(AsF32(index), AsF32(g.dimensions.y))
        x == index - (y * g.dimensions.y)
    IN  CoordAdd(Coord(x, y), g.offset)

\* Grid::get
Grid_get(g, coord) ==
    LET index == Grid_coord_to_index(g, coord)
    IN  IF ~index.some THEN None ELSE VecGet(g.cells, index.val)

\* Grid::get_mut
Grid_get_mut(g, coord) ==
    LET index == Grid_coord_to_index(g, coord)
    IN  IF ~index.some THEN None ELSE VecGetMut(g.cells, index.val)

\* What a call on a Grid gives: the cells after it and its return value, or
\* the panic it ends in.
Returns(cs, ret) == [cells |-> cs, ret |-> ret, panicked |-> FALSE]

Panics(cs) == [cells |-> cs, ret |-> None, panicked |-> TRUE]

\* Grid::set
Grid_set(g, coord, value) ==
    LET cell == Grid_get_mut(g, coord)
    IN  IF cell.some THEN Returns(WriteCell(g.cells, cell.val, value), TRUE)
        ELSE Returns(g.cells, FALSE)

\* Grid::replace
Grid_replace(g, coord, value) ==
    LET cell == Grid_get_mut(g, coord)
    IN  IF cell.some
        THEN Returns(WriteCell(g.cells, cell.val, value), Some(g.cells[cell.val + 1]))
        ELSE Returns(g.cells, None)

\* Grid::take
Grid_take(g, coord) ==
    LET cell == Grid_get_mut(g, coord)
    IN  IF cell.some
        THEN Returns(WriteCell(g.cells, cell.val, Default), Some(g.cells[cell.val + 1]))
        ELSE Returns(g.cells, None)

\* Grid::copy; slice::copy_within panics on a range that ends past the Vec.
Grid_copy(g, src, dest) ==
    LET src_index  == Grid_coord_to_index(g, src)
        dest_index == Grid_coord_to_index(g, dest)
    IN  IF src_index.some /\ dest_index.some
        THEN IF src_index.val + 1 > Len(g.cells) \/ dest_index.val + 1 > Len(g.cells)
             THEN Panics(g.cells)
             ELSE Returns(copy_within(g.cells, src_index.val, dest_index.val), TRUE)
        ELSE Returns(g.cells, FALSE)

\* Grid::swap; slice::swap panics on an index past the Vec.
Grid_swap(g, coord1, coord2) ==
    LET index1 == Grid_coord_to_index(g, coord1)
        index2 == Grid_coord_to_index(g, coord2)
    IN  IF index1.some /\ index2.some
        THEN IF index1.val >= Len(g.cells) \/ index2.val >= Len(g.cells)
             THEN Panics(g.cells)
             ELSE Returns(VecSwap(g.cells, index1.val, index2.val), TRUE)
        ELSE Returns(g.cells, FALSE)

\* The coordinates the loops of Grid::with_generator call the generator on,
\* in the order of the calls.
Grid_generator_calls(dimensions, off) ==
    [i \in 1..(dimensions.x * dimensions.y) |->
        Coord(off.x + ((i - 1) % dimensions.x), off.y + ((i - 1) \div dimensions.x))]

\* Grid::with_generator: the grid, or the panic of its assert!.
Grid_with_generator(dimensions, off, f) ==
    IF ~(dimensions.x > 0 /\ dimensions.y > 0)
    THEN Panic("Grid dimensions must be positive")
    ELSE LET calls == Grid_generator_calls(dimensions, off)
         IN  [kind       |-> "Grid",
              cells      |-> [i \in DOMAIN calls |-> Apply(f, calls[i])],
              dimensions |-> dimensions,
              offset     |-> off]

\* Grid::iter, collected
Grid_iter(g) ==
    [i \in 1..Len(g.cells) |-> [coord |-> Grid_index_to_coord(g, i - 1), cell |-> g.cells[i]]]

\* patterns::ortho_neighborhood(coord)
ortho_neighborhood(coord) ==
    <<CoordAdd(coord, Coord(0, 1)), CoordAdd(coord, Coord(1, 0)),
      CoordAdd(coord, Coord(0, -1)), CoordAdd(coord, Coord(-1, 0))>>

\* The filter FloodIter::next of grid.rs applies to the neighbours of an
\* included coordinate.
Grid_FloodKeep(g, searched, queue, coord) ==
    ~(coord \in Range(searched) \/ coord \in Range(queue)) /\ Grid_coord_in_bounds(g, coord)

RECURSIVE Grid_FloodIter_next(_, _, _, _)
\* FloodIter::next of grid.rs: the while loop, to its return.
Grid_FloodIter_next(g, accepts, searched, queue) ==
    IF Len(queue) = 0 THEN [ret |-> None, searched |-> searched, queue |-> queue]
    ELSE LET coord    == Head(queue)
             popped   == Tail(queue)
             cell     == Grid_get(g, coord)
             is_cell_included == IF cell.some THEN cell.val \in accepts ELSE FALSE
             pushed   == Append(searched, coord)
             Keep(n)  == Grid_FloodKeep(g, pushed, popped, n)
             neighbor_coords == SelectSeq(ortho_neighborhood(coord), Keep)
         IN  IF ~is_cell_included
             THEN Grid_FloodIter_next(g, accepts, pushed, popped)
             ELSE [ret      |-> Some([coord |-> coord, cell |-> cell.val]),
                   searched |-> pushed,
                   queue    |-> popped \o neighbor_coords]

\* No VecGrid is alive while a program works on a Grid.
VecGridUnchanged == UNCHANGED <<bounds, cells, coords_in, visited_coords, iter, tree, pulled>>

FloodUnchanged == UNCHANGED <<items, searched_coords, coords_to_search, predicate>>

\* Grid::with_generator(dimensions, offset, generator)
GridWithGenerator(dimensions, off, f) ==
    /\ pc = "grid"
    /\ obj = NoObj
    /\ obj' = Grid_with_generator(dimensions, off, f)
    /\ gen' = [f |-> f, x |-> 0, y |-> 0,
               calls |-> IF dimensions.x > 0 /\ dimensions.y > 0
                         THEN Grid_generator_calls(dimensions, off) ELSE <<>>]
    /\ pc' = IF obj'.kind = "panic" THEN "panicked" ELSE "grid"
    /\ UNCHANGED last
    /\ VecGridUnchanged
    /\ FloodUnchanged

\* A call on the grid that leaves its cells alone.
GridAsk(op, a, b, ret) ==
    /\ pc = "grid"
    /\ obj.kind = "Grid"
    /\ pc' = "grid_called"
    /\ last' = Call(op, a, b, None, ret, obj.cells)
    /\ UNCHANGED <<obj, gen>>
    /\ VecGridUnchanged
    /\ FloodUnchanged

GridCoordInBounds(coord) ==
    GridAsk("coord_in_bounds", coord, None, Grid_coord_in_bounds(obj, coord))

GridCoordToIndex(coord) ==
    GridAsk("coord_to_index", coord, None, Grid_coord_to_index(obj, coord))

GridGet(coord) == GridAsk("get", coord, None, Grid_get(obj, coord))

GridIter == GridAsk("iter", None, None, Grid_iter(obj))

\* index_to_coord of the index coord_to_index has just returned.
GridIndexToCoord ==
    /\ pc = "grid_called"
    /\ last.op = "coord_to_index"
    /\ last.ret.some
    /\ last' = Call("index_to_coord", last.a, last.ret.val, None,
                    Grid_index_to_coord(obj, last.ret.val), obj.cells)
    /\ UNCHANGED <<pc, obj, gen>>
    /\ VecGridUnchanged
    /\ FloodUnchanged

\* A mutator's result r becomes the grid's cells and the call's record; a
\* panic ends the program.
GridMutate(op, a, b, v, r) ==
    /\ pc = "grid"
    /\ obj.kind = "Grid"
    /\ pc' = IF r.panicked THEN "panicked" ELSE "grid_called"
    /\ obj' = [obj EXCEPT !.cells = r.cells]
    /\ last' = Call(op, a, b, v, r.ret, obj.cells)
    /\ UNCHANGED gen
    /\ VecGridUnchanged
    /\ FloodUnchanged

GridSet(coord, value) == GridMutate("set", coord, None, value, Grid_set(obj, coord, value))

GridReplace(coord, value) ==
    GridMutate("replace", coord, None, value, Grid_replace(obj, coord, value))

GridTake(coord) == GridMutate("take", coord, None, None, Grid_take(obj, coord))

GridCopy(src, dest) == GridMutate("copy", src, dest, None, Grid_copy(obj, src, dest))

GridSwap(coord1, coord2) ==
    GridMutate("swap", coord1, coord2, None, Grid_swap(obj, coord1, coord2))

\* The caller has taken the call's return value and goes on.
GridReturn ==
    /\ pc = "grid_called"
    /\ pc' = "grid"
    /\ last' = NoCall
    /\ UNCHANGED <<obj, gen>>
    /\ VecGridUnchanged
    /\ FloodUnchanged

\* grid.flood_iter(starting_coord, predicate) of grid.rs
GridFloodStart(starting_coord, accepts) ==
    /\ pc = "grid"
    /\ obj.kind = "Grid"
    /\ pc' = "grid_flood"
    /\ last' = Call("flood_iter", starting_coord, None, None, None, obj.cells)
    /\ coords_to_search' = <<starting_coord>>
    /\ searched_coords' = <<>>
    /\ predicate' = accepts
    /\ items' = <<>>
    /\ UNCHANGED <<obj, gen>>
    /\ VecGridUnchanged

\* One call of FloodIter::next of grid.rs.
GridFloodNext ==
    /\ pc = "grid_flood"
    /\ LET r == Grid_FloodIter_next(obj, predicate, searched_coords, coords_to_search)
       IN  /\ searched_coords' = r.searched
           /\ coords_to_search' = r.queue
           /\ items' = IF r.ret.some THEN Append(items, r.ret.val) ELSE items
           /\ last' = Call("flood_next", last.a, None, None, r.ret, last.pre)
    /\ UNCHANGED <<pc, obj, gen, predicate>>
    /\ VecGridUnchanged

\* The iterator is dropped.
GridFloodEnd ==
    /\ pc = "grid_flood"
    /\ pc' = "grid"
    /\ last' = NoCall
    /\ coords_to_search' = <<>>
    /\ searched_coords' = <<>>
    /\ predicate' = {}
    /\ items' = <<>>
    /\ UNCHANGED <<obj, gen>>
    /\ VecGridUnchanged

\* The coordinates of the generator's calls.
GridCoords(g) ==
    {Coord(x, y) : x \in g.offset.x..(g.offset.x + g.dimensions.x - 1),
                   y \in g.offset.y..(g.offset.y + g.dimensions.y - 1)}

\* The coordinates a call on a small grid is tried with: those of the
\* generator's calls, those Grid::bounds spans and the ring around both.
GridBox(g) ==
    {Coord(x, y) :
        x \in (g.offset.x - 1)..(Max(g.offset.x + g.dimensions.x, g.dimensions.x - g.offset.x)),
        y \in (g.offset.y - 1)..(Max(g.offset.y + g.dimensions.y, g.dimensions.y - g.offset.y))}

\* The grid of main.rs, and the coordinates it is tried with.
MainDimensions == Coord(16, 16)

MainOffset == Coord(-8, -8)

MainCoords ==
    {Coord(x, y) : x \in {-9, -8, 0, 7, 8, 23, 24}, y \in {-9, -8, 0, 7, 8, 23, 24}}

GridProbe(g) ==
    IF g.dimensions = MainDimensions THEN MainCoords ELSE GridBox(g)

InitGrid == PatternInit("grid")

\* The index mapping and the bounds of the grids of 1..MaxDim by 1..MaxDim
\* cells at the offsets -MaxOffset..MaxOffset, and of the grid of main.rs.
NextGridIndex ==
    \/ pc = "grid" /\ obj = NoObj
          /\ \E w \in 1..MaxDim, h \in 1..MaxDim,
                x \in -MaxOffset..MaxOffset, y \in -MaxOffset..MaxOffset :
                GridWithGenerator(Coord(w, h), Coord(x, y), [kind |-> "ident"])
    \/ pc = "grid" /\ obj = NoObj
          /\ GridWithGenerator(MainDimensions, MainOffset, [kind |-> "ident"])
    \/ pc = "grid" /\ obj.kind = "Grid" /\ \E coord \in GridProbe(obj) : GridCoordInBounds(coord)
    \/ pc = "grid" /\ obj.kind = "Grid" /\ \E coord \in GridProbe(obj) : GridCoordToIndex(coord)
    \/ pc = "grid" /\ obj.kind = "Grid" /\ \E coord \in GridProbe(obj) : GridGet(coord)
    \/ GridIter
    \/ GridIndexToCoord
    \/ GridReturn

SpecGridIndex == InitGrid /\ [][NextGridIndex]_vars

(***************************************************************************)
(* The flood iterators of both grids, each run until it is dropped         *)
(***************************************************************************)
\* The grids of grid.rs that are flooded: one at a negative offset with
\* every choice of accepted cells, one at a positive offset, and a 2x3 one
\* at the offset (0, 0).
NextGridFlood ==
    \/ pc = "grid" /\ obj = NoObj
          /\ \E on \in SUBSET GridCoords([dimensions |-> Coord(3, 3), offset |-> Coord(-1, -1)]) :
                GridWithGenerator(Coord(3, 3), Coord(-1, -1), [kind |-> "set", on |-> on])
    \/ pc = "grid" /\ obj = NoObj
          /\ \E off \in {Coord(0, 0), Coord(1, 1)} :
                GridWithGenerator(Coord(2, 3), off,
                    [kind |-> "set", on |-> GridCoords([dimensions |-> Coord(2, 3), offset |-> off])])
    \/ pc = "grid" /\ obj.kind = "Grid"
          /\ \E starting_coord \in {obj.offset, CoordAdd(obj.offset, Coord(1, 1)),
                                    CoordAdd(obj.offset, Coord(-1, 0)),
                                    CoordAdd(obj.offset, obj.dimensions)},
                accepts \in {{1}, {0}} :
                GridFloodStart(starting_coord, accepts)
    \/ GridFloodNext
    \/ GridFloodEnd

InitFloods == InitFlood \/ InitGrid

NextFloods == NextFlood \/ NextGridFlood

\* An iterator that is not dropped is called again.
SpecFloods ==
    /\ InitFloods
    /\ [][NextFloods]_vars
    /\ WF_vars(FloodNext)
    /\ WF_vars(GridFloodNext)

(***************************************************************************)
(* The mutators of both grids                                              *)
(***************************************************************************)
\* The grids of grid.rs that are mutated: at a negative offset, at a
\* positive one, and a 3x2 one at the offset (0, 0).
MutatedGrids ==
    {[dimensions |-> Coord(2, 2), offset |-> Coord(-1, -1)],
     [dimensions |-> Coord(3, 3), offset |-> Coord(1, 1)],
     [dimensions |-> Coord(3, 2), offset |-> Coord(0, 0)]}

NextGridMutators ==
    \/ pc = "grid" /\ obj = NoObj
          /\ \E g \in MutatedGrids : GridWithGenerator(g.dimensions, g.offset, [kind |-> "sum"])
    \/ pc = "grid" /\ obj.kind = "Grid"
          /\ \E coord \in GridBox(obj), value \in Vals : GridSet(coord, value)
    \/ pc = "grid" /\ obj.kind = "Grid"
          /\ \E coord \in GridBox(obj), value \in Vals : GridReplace(coord, value)
    \/ pc = "grid" /\ obj.kind = "Grid" /\ \E coord \in GridBox(obj) : GridTake(coord)
    \/ pc = "grid" /\ obj.kind = "Grid"
          /\ \E src \in GridBox(obj), dest \in GridBox(obj) : GridCopy(src, dest)
    \/ pc = "grid" /\ obj.kind = "Grid"
          /\ \E coord1 \in GridBox(obj), coord2 \in GridBox(obj) : GridSwap(coord1, coord2)
    \/ GridReturn

InitMutators == Init \/ InitGrid

NextMutators == Next \/ NextGridMutators

SpecMutators == InitMutators /\ [][NextMutators]_vars

(***************************************************************************)
(* What the claims speak of                                                *)
(***************************************************************************)
\* left <= x < right and top <= y < bottom
InBounds(c) ==
    bounds.left <= c.x /\ c.x < bounds.right /\ bounds.top <= c.y /\ c.y < bounds.bottom

PositiveRect == bounds.right - bounds.left > 0 /\ bounds.bottom - bounds.top > 0

RectArea == (bounds.right - bounds.left) * (bounds.bottom - bounds.top)

\* The coordinates of the rect (among those of the rect and the ring around it).
InBoundsCoords == {c \in Box(bounds) : InBounds(c)}

\* The items with tag Ok among the first k of the running iterator.
OkItems == {k \in DOMAIN items : items[k].tag = "Ok"}

(***************************************************************************)
(* C1                                                                      *)
(***************************************************************************)
\* C1: over a Rect of positive width and height, coord_to_index of a contained
\* coordinate is an index in [0, area), no other coordinate gets that index,
\* and index_to_coord gives the coordinate back.
C1_IndexRoundTrip ==
    PositiveRect =>
        /\ (last.op = "coord_to_index" /\ InBounds(last.a)) =>
              /\ last.ret.some
              /\ last.ret.val >= 0 /\ last.ret.val < RectArea
              /\ \A c \in IndexCoords(bounds) \ {last.a} :
                    coord_to_index(bounds, c) # last.ret
        /\ last.op = "index_to_coord" => last.ret = last.a

\* The same over the rects of at most 2^24 cells.
C1_SmallRoundTrip == RectArea <= 16777216 => C1_IndexRoundTrip

\* index_to_coord has run on the last index of a non-square rect with an offset.
C1_Reached ==
    /\ last.op = "index_to_coord"
    /\ bounds.left # 0 /\ bounds.top # 0
    /\ bounds.right - bounds.left > 1 /\ bounds.bottom - bounds.top > 1
    /\ bounds.right - bounds.left # bounds.bottom - bounds.top
    /\ last.b = RectArea - 1

(***************************************************************************)
(* C2                                                                      *)
(***************************************************************************)
\* C2: at every point of a selection_iter_mut pass no two Ok items hold a
\* handle to the same cell of the backing Vec.
C2_NoAliasedHandles ==
    pc = "selmut" =>
        \A i \in OkItems, j \in OkItems : i # j => items[i].cell # items[j].cell

\* A pass over a repeated coordinate and an out-of-bounds one that has handed
\* out two handles.
C2_Reached ==
    /\ pc = "selmut"
    /\ Cardinality(OkItems) = 2
    /\ \E i \in DOMAIN coords_in, j \in DOMAIN coords_in : i < j /\ coords_in[i] = coords_in[j]

(***************************************************************************)
(* C3                                                                      *)
(***************************************************************************)
\* The item the claim gives the k-th input coordinate of the pass.
C3_Expected(k) ==
    LET c == coords_in[k]
    IN  IF ~InBounds(c) THEN "OutOfBounds"
        ELSE IF \E j \in 1..(k - 1) : coords_in[j] = c THEN "AlreadyVisited"
        ELSE "Ok"

\* C3: selection_iter_mut gives one item per input coordinate, in input order:
\* OutOfBounds(coord) for a coordinate outside the bounds, Ok on the first
\* occurrence of a coordinate inside, AlreadyVisited(coord) on every later one;
\* what the caller writes through the Ok handles lands in cells of coordinates
\* the pass has yielded.
C3_OneItemPerCoord ==
    pc = "selmut" =>
        /\ Len(items) = Len(coords_in)
        /\ \A k \in DOMAIN items :
              items[k].coord = coords_in[k] /\ items[k].tag = C3_Expected(k)
        /\ \A c \in InBoundsCoords :
              get(bounds, cells, c) # get(bounds, last.pre, c) =>
                  \E k \in OkItems : items[k].coord = c

\* An error item, then a valid coordinate, then the same coordinate again,
\* with a write through the handle.
C3_Reached ==
    /\ pc = "selmut"
    /\ Len(items) = 3
    /\ items[1].tag = "OutOfBounds"
    /\ items[2].tag = "Ok"
    /\ items[3] = AlreadyVisited(coords_in[2])
    /\ get(bounds, cells, coords_in[2]) = Some(1)

(***************************************************************************)
(* C4                                                                      *)
(***************************************************************************)
\* C4: selection_iter gives one item per input coordinate, in input order:
\* Ok((coord, the cell of coord)) inside the bounds, OutOfBounds(coord)
\* outside; repeated coordinates are yielded again; the grid is not modified.
\* (Every cell of these grids holds its own coordinate.)
C4_OneItemPerCoord ==
    pc = "sel" =>
        /\ Len(items) = Len(coords_in)
        /\ \A k \in DOMAIN items :
              items[k] = IF InBounds(coords_in[k])
                         THEN Ok(coords_in[k], Apply(gen.f, coords_in[k]))
                         ELSE OutOfBounds(coords_in[k])
        /\ cells = last.pre

\* A coordinate read twice around an out-of-bounds one.
C4_Reached ==
    /\ pc = "sel"
    /\ Len(items) = 3
    /\ items[1].tag = "Ok"
    /\ items[2].tag = "OutOfBounds"
    /\ items[3] = items[1]

(***************************************************************************)
(* C5                                                                      *)
(***************************************************************************)
\* The coordinates the flood may enter: inside the bounds, with a cell the
\* predicate accepts (the cell of c is what the grid's generator gave for c).
C5_Accepted(c) == InBounds(c) /\ Apply(gen.f, c) \in predicate

C5_OrthoNeighbours(c) ==
    {Coord(c.x, c.y + 1), Coord(c.x + 1, c.y), Coord(c.x, c.y - 1), Coord(c.x - 1, c.y)}

RECURSIVE C5_Grow(_)
C5_Grow(S) ==
    LET N == S \cup {n \in UNION {C5_OrthoNeighbours(c) : c \in S} : C5_Accepted(n)}
    IN  IF N = S THEN S ELSE C5_Grow(N)

\* The maximal 4-connected region of accepted coordinates that contains start.
C5_Region(start) == IF C5_Accepted(start) THEN C5_Grow({start}) ELSE {}

\* C5: flood_iter yields no coordinate twice and only coordinates of the
\* maximal 4-connected region of accepted coordinates around start, each with
\* its cell; once nothing is left to search it has yielded exactly that
\* region (nothing when start is out of bounds or not accepted).
C5_FloodRegion ==
    pc = "flood" =>
        /\ \A i \in DOMAIN items, j \in DOMAIN items :
              i # j => items[i].coord # items[j].coord
        /\ \A k \in DOMAIN items :
              /\ items[k].coord \in C5_Region(last.a)
              /\ items[k].cell = Apply(gen.f, items[k].coord)
        /\ coords_to_search = <<>> =>
              {items[k].coord : k \in DOMAIN items} = C5_Region(last.a)

\* The 4x4 all-true grid flooded from (0,0) has yielded its 16 coordinates.
C5_Reached ==
    /\ pc = "flood"
    /\ bounds = Rect_new(Coord(4, 4))
    /\ last.a = Coord(0, 0)
    /\ predicate = {1}
    /\ coords_to_search = <<>>
    /\ Len(items) = 16
    /\ last.op = "flood_next" /\ ~last.ret.some

(***************************************************************************)
(* C6                                                                      *)
(***************************************************************************)
\* C6: get and get_mut return a cell exactly for the coordinates inside the
\* bounds, and then the cell of that coordinate (every cell of these grids
\* holds its own coordinate); they return None for every other coordinate.
C6_GetIffContained ==
    (pc = "called" /\ last.op \in {"get", "get_mut"}) =>
        /\ last.ret.some <=> InBounds(last.a)
        /\ (last.op = "get" /\ last.ret.some) => last.ret.val = last.a
        /\ (last.op = "get_mut" /\ last.ret.some) =>
              /\ last.ret.val >= 0 /\ last.ret.val < Len(cells)
              /\ cells[last.ret.val + 1] = last.a

\* get((-1, 4)) on the 8x8 grid has returned None.
C6_Reached ==
    /\ pc = "called"
    /\ last.op = "get"
    /\ bounds = Rect_new(Coord(8, 8))
    /\ last.a = Coord(-1, 4)
    /\ ~last.ret.some

(***************************************************************************)
(* C7                                                                      *)
(***************************************************************************)
C7_TwoCoords == {"copy", "swap", "mov"}

C7_ReturnsBool == {"set", "copy", "swap"}

C7_ReturnsOption == {"replace", "take", "mov"}

\* The last call was a mutator with a coordinate outside the bounds.
C7_OutOfBoundsCall ==
    /\ pc = "called"
    /\ last.op \in C7_ReturnsBool \cup C7_ReturnsOption
    /\ \/ ~InBounds(last.a)
       \/ last.op \in C7_TwoCoords /\ ~InBounds(last.b)

\* C7: a mutator called with an out-of-bounds coordinate (either one, for
\* copy, swap and mov) changes no cell and returns false (set, copy, swap) or
\* None (replace, take, mov).
C7_OutOfBoundsNoOp ==
    C7_OutOfBoundsCall =>
        /\ cells = last.pre
        /\ last.op \in C7_ReturnsBool => last.ret = FALSE
        /\ last.op \in C7_ReturnsOption => last.ret = None

\* mov from a cell holding a non-default value to a coordinate out of bounds.
C7_Reached ==
    /\ C7_OutOfBoundsCall
    /\ last.op = "mov"
    /\ InBounds(last.a)
    /\ get(bounds, last.pre, last.a) = Some(1)

(***************************************************************************)
(* C8                                                                      *)
(***************************************************************************)
C8_InBoundsMov == pc = "called" /\ last.op = "mov" /\ InBounds(last.a) /\ InBounds(last.b)

\* C8: for in-bounds src and dest (src = dest included), mov returns the value
\* dest held before the call, and afterwards dest holds the value src held
\* before the call.
C8_MovReturnsPrevDest ==
    C8_InBoundsMov =>
        /\ last.ret = get(bounds, last.pre, last.b)
        /\ get(bounds, cells, last.b) = get(bounds, last.pre, last.a)

\* The same for src # dest, where src is also left holding the default.
C8_MovDistinct ==
    (C8_InBoundsMov /\ last.a # last.b) =>
        /\ last.ret = get(bounds, last.pre, last.b)
        /\ get(bounds, cells, last.b) = get(bounds, last.pre, last.a)
        /\ get(bounds, cells, last.a) = Some(Default)

\* What mov(c, c) does: the cell keeps its value and Some(default) is returned.
C8_MovSame ==
    (C8_InBoundsMov /\ last.a = last.b) =>
        /\ last.ret = Some(Default)
        /\ cells = last.pre

(***************************************************************************)
(* C9                                                                      *)
(***************************************************************************)
\* C9: cells.len() == bounds.area() from the moment new or with_generator has
\* returned, whatever is called afterwards, and the bounds never change.
C9_LenIsArea ==
    /\ [](pc # "gen" => Len(cells) = RectArea)
    /\ [][bounds' = bounds]_vars

\* A grid built by with_generator, mutated through a handle of selection_iter_mut.
C9_Reached ==
    /\ pc = "selmut"
    /\ gen.f.kind = "sum"
    /\ cells # last.pre
    /\ Len(cells) = 2

(***************************************************************************)
(* C10                                                                     *)
(***************************************************************************)
\* C10: with_generator has called the generator area() times, once for each
\* coordinate inside the bounds and for no other, in row-major order (x
\* fastest, y from top), and afterwards get(c) is f(c) for every coordinate
\* inside the bounds.
C10_GeneratorCalls ==
    (pc # "gen" /\ gen.f.kind # "none") =>
        /\ Len(gen.calls) = RectArea
        /\ Range(gen.calls) = InBoundsCoords
        /\ \A i \in DOMAIN gen.calls, j \in DOMAIN gen.calls :
              i < j => \/ gen.calls[i].y < gen.calls[j].y
                       \/ gen.calls[i].y = gen.calls[j].y /\ gen.calls[i].x < gen.calls[j].x
        /\ \A c \in InBoundsCoords : get(bounds, cells, c) = Some(Apply(gen.f, c))

\* with_generator has returned a non-square grid whose offset is not (0, 0).
C10_Reached ==
    /\ pc = "idle"
    /\ last.op = "with_generator"
    /\ bounds = [top |-> 0, bottom |-> 2, left |-> -1, right |-> 2]
    /\ Len(cells) = 6

(***************************************************************************)
(* C11: construction refuses non-positive dimensions: no Rect (Rect::new,  *)
(* Rect::with_corners), VecGrid (VecGrid::new) or Grid (Grid::new) that a  *)
(* constructor returned has a width or height <= 0.                        *)
(***************************************************************************)
C11_ConstructionRefuses ==
    /\ obj.kind = "Rect" => width(obj.rect) > 0 /\ height(obj.rect) > 0
    /\ obj.kind = "VecGrid" => width(obj.bounds) > 0 /\ height(obj.bounds) > 0
    /\ obj.kind = "Grid" => obj.dimensions.x > 0 /\ obj.dimensions.y > 0

\* Grid::new of grid.rs alone does refuse: it returns positive grids only.
C11_GridNewRefuses ==
    obj.kind = "Grid" => obj.dimensions.x > 0 /\ obj.dimensions.y > 0

C13_Exhausted == pc = "rect_iter" /\ last.op = "RectIter::next" /\ ~last.ret.some

C13_RowMajor(r) ==
    /\ Len(items) = area(r)
    /\ Range(items) = {c \in Box(r) : contains(r, c)}
    /\ \A j \in DOMAIN items : \A k \in DOMAIN items :
           j < k => \/ items[j].y < items[k].y
                    \/ items[j].y = items[k].y /\ items[j].x < items[k].x
    /\ items # <<>> =>
           /\ items[1] = Coord(r.left, r.top)
           /\ items[Len(items)] = Coord(r.right - 1, r.bottom - 1)

C13_RectIterRowMajor == C13_Exhausted => C13_RowMajor(obj.rect)

\* The same, for the Rects of positive width and height only.
C13_PositiveRectIter ==
    C13_Exhausted /\ width(obj.rect) > 0 /\ height(obj.rect) > 0 => C13_RowMajor(obj.rect)

(***************************************************************************)
(* C14: for 0 <= p <= width (height), the two Rects partition_horizontal   *)
(* (partition_vertical) returns tile the Rect: a coordinate is in one of   *)
(* them iff it is in the Rect, none is in both, the areas add up; and      *)
(* partition_horizontal(0) is (an empty Rect, the Rect itself).            *)
(***************************************************************************)
C14_InRange ==
    /\ obj.kind = "Parts"
    /\ obj.partition >= 0
    /\ obj.partition <= (IF obj.axis = "Horizontal" THEN width(obj.of) ELSE height(obj.of))

RECURSIVE C15_SumAreas(_)
C15_SumAreas(rects) ==
    IF rects = <<>> THEN 0 ELSE area(Head(rects)) + C15_SumAreas(Tail(rects))

C15_Bisected == pc = "bsp_done" /\ tree.f.kind = "bisect"

C15_BspTiles ==
    C15_Bisected =>
        /\ C15_SumAreas(items) = area(obj.rect)
        /\ \A j \in DOMAIN items : \A k \in DOMAIN items :
               j < k => \A c \in Box(items[j]) : ~(contains(items[j], c) /\ contains(items[k], c))
        /\ \A c \in Box(obj.rect) :
               contains(obj.rect, c) => \E k \in DOMAIN items : contains(items[k], c)
        /\ (obj.rect = Rect_new(Coord(16, 16)) /\ tree.f.min_size = 4) =>
               /\ Len(items) = 16
               /\ \A k \in DOMAIN items : area(items[k]) = 16

\* The 16x16 root of the test has been split from Horizontal with min_size 4.
C15_Reached ==
    /\ C15_Bisected
    /\ obj.rect = Rect_new(Coord(16, 16))
    /\ tree.f.min_size = 4
    /\ tree.orientation = "Horizontal"
    /\ Len(items) = 16

(***************************************************************************)
(* C16: leaves() returns every leaf of the tree exactly once, depth first: *)
(* at every Node the leaves of the first child come before those of the   *)
(* second, and the first child is the left part of a horizontal split and  *)
(* the part nearer top of a vertical split.                                *)
(***************************************************************************)
RECURSIVE C16_LeafPaths(_)
\* The paths (1 = first child, 2 = second child) from the root to the leaves.
C16_LeafPaths(t) ==
    IF t.leaf THEN {<<>>}
    ELSE {<<1>> \o q : q \in C16_LeafPaths(t.first)} \cup {<<2>> \o q : q \in C16_LeafPaths(t.second)}

RECURSIVE C16_NodePaths(_)
\* The paths from the root to the Nodes.
C16_NodePaths(t) ==
    IF t.leaf THEN {}
    ELSE {<<>>} \cup {<<1>> \o q : q \in C16_NodePaths(t.first)}
                \cup {<<2>> \o q : q \in C16_NodePaths(t.second)}

RECURSIVE C16_At(_, _)
C16_At(t, path) ==
    IF path = <<>> THEN t
    ELSE C16_At(IF Head(path) = 1 THEN t.first ELSE t.second, Tail(path))

\* Path q turns to the first child where path r turns to the second.
C16_Before(q, r) ==
    \E i \in 1..Min(Len(q), Len(r)) :
        /\ q[i] < r[i]
        /\ \A j \in 1..(i - 1) : q[j] = r[j]

C16_DepthFirst ==
    LET P == C16_LeafPaths(tree.root)
    IN  /\ Len(items) = Cardinality(P)
        /\ \A q \in P :
               items[1 + Cardinality({r \in P : C16_Before(r, q)})] = C16_At(tree.root, q).rect

\* The orientation bsp split the Node at `path` with (every splitter here
\* answers with the orthogonal orientation).
C16_OrientationAt(path) ==
    IF Len(path) % 2 = 0 THEN tree.orientation ELSE orthogonal(tree.orientation)

C16_FirstIsLeft(n) ==
    /\ n.first.rect.left = n.rect.left
    /\ n.first.rect.right = n.second.rect.left
    /\ n.second.rect.right = n.rect.right

C16_FirstIsNearerTop(n) ==
    /\ n.first.rect.top = n.rect.top
    /\ n.first.rect.bottom = n.second.rect.top
    /\ n.second.rect.bottom = n.rect.bottom

C16_FirstIsNearerBottom(n) ==
    /\ n.first.rect.bottom = n.rect.bottom
    /\ n.first.rect.top = n.second.rect.bottom
    /\ n.second.rect.top = n.rect.top

C17_KeptAll == pulled = Len(items)

C17_Endpoints ==
    /\ pulled <= LineLength(obj)
    /\ (C17_KeptAll /\ items # <<>>) => items[1] = obj.from
    /\ iter.is_finished =>
           /\ pulled = LineLength(obj)
           /\ last.ret.some => last.ret.val = obj.to
           /\ C17_KeptAll => items[Len(items)] = obj.to
    /\ (iter.is_finished /\ C17_KeptAll /\ obj.from = obj.to) => items = <<obj.from>>
    /\ (iter.is_finished /\ C17_KeptAll /\ obj = Line_new(Coord(0, 0), Coord(3, 0))) =>
           items = <<Coord(0, 0), Coord(1, 0), Coord(2, 0), Coord(3, 0)>>

C17_LineEndpoints == pc = "line_iter" => C17_Endpoints

\* The same, for the lines of at most 2^23 items, on which every value
\* `fault` takes is an f32.
C17_ShortLineEndpoints ==
    (pc = "line_iter" /\ LineLength(obj) <= 8388608) => C17_Endpoints

\* The line (0,0)-(3,0) has been iterated to its end.
C17_Reached ==
    /\ pc = "line_iter"
    /\ iter.is_finished
    /\ obj = Line_new(Coord(0, 0), Coord(3, 0))
    /\ Len(items) = 4

(***************************************************************************)
(* C18: Circle::iter yields no coordinate twice, and for radius 0 its      *)
(* output is the single coordinate `center`.                               *)
(***************************************************************************)
C18_Exhausted == pc = "circle_iter" /\ last.op = "CircleIter::next" /\ ~last.ret.some

C18_NoRepeat ==
    \A j \in DOMAIN items : \A k \in DOMAIN items : j # k => items[j] # items[k]

C18_EachOnce ==
    pc = "circle_iter" =>
        /\ C18_NoRepeat
        /\ (C18_Exhausted /\ obj.radius = 0) => items = <<obj.center>>

\* The same, for the circles of radius >= 1 only.
C18_PositiveRadiusEachOnce ==
    (pc = "circle_iter" /\ obj.radius >= 1) => C18_NoRepeat

(***************************************************************************)
(* C19: the set of coordinates Circle::iter yields is closed under the     *)
(* reflections about the center: with center + (x, y) it holds             *)
(* center + (-x, y), center + (x, -y) and center + (y, x).                 *)
(***************************************************************************)
C19_Symmetric ==
    C18_Exhausted =>
        \A c \in Range(items) :
            LET x == c.x - obj.center.x
                y == c.y - obj.center.y
            IN  /\ Coord(obj.center.x - x, obj.center.y + y) \in Range(items)
                /\ Coord(obj.center.x + x, obj.center.y - y) \in Range(items)
                /\ Coord(obj.center.x + y, obj.center.y + x) \in Range(items)

\* The circle of radius 7 around (9, 9) has been iterated to its end.
C19_Reached ==
    /\ C18_Exhausted
    /\ obj = Circle_new(Coord(9, 9), 7)
    /\ Coord(9, 16) \in Range(items)
    /\ Coord(14, 14) \in Range(items)
    /\ Cardinality(Range(items)) > 8

(***************************************************************************)
(* C20: for radius >= 1 the coordinates Circle::iter yields are            *)
(* 8-connected: every one is reached from the first through yielded        *)
(* coordinates at Chebyshev distance 1; the octant is traced in steps to   *)
(* an 8-adjacent point, and its last point is equal or 8-adjacent to its   *)
(* mirror across the diagonal.                                             *)
(***************************************************************************)
C20_Adjacent(a, b) == a # b /\ abs(a.x - b.x) <= 1 /\ abs(a.y - b.y) <= 1

RECURSIVE C20_Grow(_, _)
C20_Grow(S, all) ==
    LET more == {c \in all \ S : \E e \in S : C20_Adjacent(c, e)}
    IN  IF more = {} THEN S ELSE C20_Grow(S \cup more, all)

C20_Ring ==
    (C18_Exhausted /\ obj.radius >= 1) =>
        /\ C20_Grow({items[1]}, Range(items)) = Range(items)
        /\ abs(iter.cursor.x - iter.cursor.y) <= 1

C20_Step ==
    (pc = "circle_iter" /\ pc' = "circle_iter" /\ iter'.cursor # iter.cursor) =>
        C20_Adjacent(iter.cursor, iter'.cursor)

C20_Connected == [](C20_Ring) /\ [][C20_Step]_vars

\* The circle of radius 7 around the origin has been iterated to its end,
\* the octant traced from (0, 7) to (5, 5).
C20_Reached ==
    /\ C18_Exhausted
    /\ obj = Circle_new(Coord(0, 0), 7)
    /\ iter.cursor = Coord(5, 5)
    /\ Len(items) > 8

(***************************************************************************)
(* C21: with Moore adjacency the interior and the internal border of a     *)
(* cluster are disjoint and their union is the cluster, the interior being *)
(* the members with no non-member neighbour and the internal border the    *)
(* members with at least one; no coordinate of the external border is a    *)
(* member. The same holds for the fields of cluster_layers(cluster), also  *)
(* when the vector holds a coordinate more than once.                      *)
(***************************************************************************)
C21_Moore(c) ==
    {Coord(c.x + dx, c.y + dy) : dx \in -1..1, dy \in -1..1} \ {c}

C21_Interior(S) == {c \in S : C21_Moore(c) \subseteq S}

C21_InternalBorder(S) == {c \in S : C21_Moore(c) \ S # {}}

C21_Partition(S, interior, internal_border) ==
    /\ interior \cap internal_border = {}
    /\ interior \cup internal_border = S
    /\ interior = C21_Interior(S)
    /\ internal_border = C21_InternalBorder(S)

C21_LayersPartition ==
    /\ (obj.kind = "Cluster" /\ tree.kind = "Layers")
        => /\ tree.interior.some
                => Range(tree.interior.val) = C21_Interior(obj.set)
           /\ tree.internal_border.some
                => Range(tree.internal_border.val) = C21_InternalBorder(obj.set)
           /\ (tree.interior.some /\ tree.internal_border.some)
                => C21_Partition(obj.set, Range(tree.interior.val),
                                 Range(tree.internal_border.val))
    /\ (obj.kind = "Cluster" /\ pc = "cluster_border")
        => Range(items) \cap obj.set = {}
    /\ obj.kind = "ClusterLayers"
        => /\ C21_Partition(Range(last.a), Range(obj.interior), Range(obj.internal_border))
           /\ Range(obj.external_border) \cap Range(last.a) = {}

\* Both iterators of a cluster with an interior were collected and its
\* external border was pulled to its end.
C21_Reached ==
    /\ obj.kind = "Cluster" /\ pc = "cluster_border" /\ Len(items) > 0
    /\ tree.kind = "Layers" /\ tree.interior.some /\ tree.internal_border.some
    /\ Len(tree.interior.val) > 0 /\ Len(tree.internal_border.val) > 0
    /\ last.ret = None

(***************************************************************************)
(* C22: iter_external_border yields exactly the coordinates outside the    *)
(* cluster that have a member among their 8 Moore neighbours, each once,   *)
(* and then ends; the cluster {(0,0)} has 0 interior, 1 internal border    *)
(* and 8 external border coordinates, the 3x3 square has 1, 8 and 16.      *)
(***************************************************************************)
C22_ExternalBorder(S) == (UNION {C21_Moore(c) : c \in S}) \ S

C22_Ended == last.op = "ExternalBorderIter::next" /\ last.ret = None

C22_Single == {Coord(0, 0)}

C22_Square == {Coord(x, y) : x \in 0..2, y \in 0..2}

C22_Counts(S, interior, internal_border, external_border) ==
    /\ tree.kind = "Layers" /\ tree.interior.some => Len(tree.interior.val) = interior
    /\ tree.kind = "Layers" /\ tree.internal_border.some
        => Len(tree.internal_border.val) = internal_border
    /\ pc = "cluster_border" /\ C22_Ended => Len(items) = external_border

C22_ExternalBorderOnce ==
    obj.kind = "Cluster"
        => /\ pc = "cluster_border"
                => /\ \A i, j \in 1..Len(items) : items[i] = items[j] => i = j
                   /\ Range(items) \subseteq C22_ExternalBorder(obj.set)
                   /\ C22_Ended
                        => /\ Range(items) = C22_ExternalBorder(obj.set)
                           /\ ExternalBorderIter_next(iter).ret = None
           /\ obj.set = C22_Single => C22_Counts(obj.set, 0, 1, 8)
           /\ obj.set = C22_Square => C22_Counts(obj.set, 1, 8, 16)

\* The external border of the 3x3 square was pulled to its end.
C22_Reached ==
    /\ obj.kind = "Cluster" /\ obj.set = C22_Square
    /\ pc = "cluster_border" /\ C22_Ended /\ Len(items) = 16
    /\ tree.kind = "Layers" /\ tree.interior.some /\ tree.internal_border.some

(***************************************************************************)
(* C23: the line sequence is the one of the reference error-term           *)
(* rasterization for every pair of endpoints: the major axis is the one    *)
(* with the strictly greater absolute delta (y on a tie), the error starts *)
(* at exactly majorDelta / 2, each step moves one unit along the major     *)
(* axis and subtracts minorDelta, and exactly when the error is then below *)
(* zero majorDelta is added back and the minor axis is stepped too. So     *)
(* consecutive coordinates are 8-adjacent and the error stays in           *)
(* [0, majorDelta).                                                        *)
(***************************************************************************)
\* The reference keeps its error term doubled, as an exact integer.
C23_RefStart(l) ==
    LET dx == l.to.x - l.from.x
        dy == l.to.y - l.from.y
        x_major == abs(dx) > abs(dy)
    IN  [pos     |-> l.from,
         major   |-> IF x_major THEN abs(dx) ELSE abs(dy),
         minor   |-> IF x_major THEN abs(dy) ELSE abs(dx),
         major_u |-> IF x_major THEN Coord(signum(dx), 0) ELSE Coord(0, signum(dy)),
         minor_u |-> IF x_major THEN Coord(0, signum(dy)) ELSE Coord(signum(dx), 0),
         err2    |-> IF x_major THEN abs(dx) ELSE abs(dy),
         yielded |-> <<>>,
         done    |-> FALSE]

C23_RefPull(l, r) ==
    IF r.done THEN r
    ELSE IF r.pos = l.to THEN [r EXCEPT !.yielded = Append(@, r.pos), !.done = TRUE]
    ELSE LET err2 == r.err2 - (2 * r.minor)
             along == CoordAdd(r.pos, r.major_u)
         IN  IF err2 < 0
             THEN [r EXCEPT !.yielded = Append(@, r.pos), !.err2 = err2 + (2 * r.major),
                            !.pos = CoordAdd(along, r.minor_u)]
             ELSE [r EXCEPT !.yielded = Append(@, r.pos), !.err2 = err2, !.pos = along]

RECURSIVE C23_RefAfter(_, _)
\* The reference after n pulls.
C23_RefAfter(l, n) ==
    IF n = 0 THEN C23_RefStart(l) ELSE C23_RefPull(l, C23_RefAfter(l, n - 1))

C23_Follows ==
    LET ref == C23_RefAfter(obj, pulled)
    IN  /\ items = ref.yielded
        /\ iter.is_finished = ref.done
        /\ iter.next_coord = ref.pos
        /\ iter.fault = ref.err2
        /\ \A i \in 1..(Len(items) - 1) : C20_Adjacent(items[i], items[i + 1])
        /\ iter.major_fault > 0 => (0 <= iter.fault /\ iter.fault < 2 * iter.major_fault)

C23_LineIsReference == (pc = "line_iter" /\ C17_KeptAll) => C23_Follows

\* The same, for the lines of at most 2^23 items.
C23_ShortLineIsReference ==
    (pc = "line_iter" /\ C17_KeptAll /\ LineLength(obj) <= 8388608) => C23_Follows

\* A line that steps its minor axis has been iterated to its end.
C23_Reached ==
    /\ pc = "line_iter" /\ C17_KeptAll /\ iter.is_finished
    /\ iter.minor_fault > 0 /\ iter.major_fault > iter.minor_fault

(***************************************************************************)
(* C24: the octant CircleIter traces follows the midpoint-circle           *)
(* recurrence for every radius >= 0: the cursor starts at (0, radius) with *)
(* d = 3 - 2 * radius; while y > x, x is incremented and, when d < 0,      *)
(* d <- d + 4x + 6, otherwise y <- y - 1 and d <- d + 4(x - y) + 10. The   *)
(* cursor points are those of a reference computed with these updates.     *)
(***************************************************************************)
C24_RefStart(radius) == [cursor |-> Coord(0, radius), d |-> 3 - (2 * radius)]

C24_RefStep(r) ==
    IF ~(r.cursor.y > r.cursor.x) THEN r
    ELSE LET x == r.cursor.x + 1
             y == r.cursor.y - 1
         IN  IF r.d < 0
             THEN [cursor |-> Coord(x, r.cursor.y), d |-> r.d + (4 * x) + 6]
             ELSE [cursor |-> Coord(x, y), d |-> r.d + (4 * (x - y)) + 10]

RECURSIVE C24_RefAfter(_, _)
\* The reference after n steps.
C24_RefAfter(radius, n) ==
    IF n = 0 THEN C24_RefStart(radius) ELSE C24_RefStep(C24_RefAfter(radius, n - 1))

\* The cursor has made as many steps as its x says.
C24_OctantIsMidpoint ==
    pc = "circle_iter"
        => LET ref == C24_RefAfter(obj.radius, iter.cursor.x)
           IN  /\ iter.cursor = ref.cursor
               /\ (last.op = "CircleIter::next" /\ last.ret = None)
                    => ~(ref.cursor.y > ref.cursor.x)

\* The same, for the radii on which the two recurrences give the same points.
C24_SmallOctantIsMidpoint == (pc = "circle_iter" /\ obj.radius <= 4) => C24_OctantIsMidpoint

\* A circle whose octant has a step with d >= 0 was traced to its end.
C24_Reached ==
    /\ pc = "circle_iter" /\ last.op = "CircleIter::next" /\ last.ret = None
    /\ obj.radius = 4

(***************************************************************************)
(* C25: flood_iter yields in breadth-first order: start comes first, and   *)
(* when a is yielded before b, the shortest 4-connected path from start to *)
(* a inside the accepted region is no longer than the one to b.            *)
(***************************************************************************)
\* The coordinates the flood may enter. In a VecGrid: inside the bounds, with
\* a cell the predicate accepts. In a Grid of grid.rs: with a cell, by
\* get, that the predicate accepts.
C25_Accepted(c) ==
    IF pc = "flood" THEN C5_Accepted(c)
    ELSE LET cell == Grid_get(obj, c) IN cell.some /\ cell.val \in predicate

RECURSIVE C25_Ring(_, _, _)
\* The length of the shortest path from the coordinates of S, which are k
\* steps from start, to c inside the accepted region (-1: there is none).
C25_Ring(S, k, c) ==
    LET N == S \cup {n \in UNION {C5_OrthoNeighbours(e) : e \in S} : C25_Accepted(n)}
    IN  IF c \in S THEN k
        ELSE IF N = S THEN -1
        ELSE C25_Ring(N, k + 1, c)

C25_Distance(start, c) == IF C25_Accepted(start) THEN C25_Ring({start}, 0, c) ELSE -1

C25_BreadthFirst ==
    pc \in {"flood", "grid_flood"} =>
        /\ items # <<>> => items[1].coord = last.a
        /\ \A i \in DOMAIN items, j \in DOMAIN items :
              i < j => /\ C25_Distance(last.a, items[i].coord) >= 0
                       /\ C25_Distance(last.a, items[i].coord)
                              <= C25_Distance(last.a, items[j].coord)

\* A region with coordinates three steps from start and a rejected
\* coordinate beside it was flooded to its end.
C25_Reached ==
    /\ pc = "flood"
    /\ last.op = "flood_next" /\ ~last.ret.some
    /\ Len(items) >= 6
    /\ C25_Distance(last.a, items[Len(items)].coord) >= 3
    /\ \E k \in DOMAIN items : ~C5_Accepted(Coord(items[k].coord.x + 1, items[k].coord.y))
                                 /\ InBounds(Coord(items[k].coord.x + 1, items[k].coord.y))

(***************************************************************************)
(* C26: with the canonical splitter (no split when d - 2 * min_size <= 0,  *)
(* otherwise any offset of min_size..d - min_size and the orthogonal next  *)
(* orientation) and min_size >= 1, bsp terminates on every root with a     *)
(* finite tree, whichever offsets are drawn.                               *)
(***************************************************************************)
\* The nodes a tree over r has at most: one leaf per cell of r.
C26_MaxNodes(r) == 2 * Max(1, width(r)) * Max(1, height(r)) - 1

RECURSIVE C26_Sum(_)
C26_Sum(pending) ==
    IF pending = <<>> THEN 0 ELSE C26_MaxNodes(Head(pending).rect) + C26_Sum(Tail(pending))

\* The calls that are still to be made, at most.
C26_CallsLeft == IF pc = "bsp_call" THEN C26_Sum(iter.pending) ELSE 0

C26_Finite ==
    pc \in {"bsp_call", "bsp_done"}
        => iter.nodes + iter.leaves + C26_CallsLeft <= C26_MaxNodes(obj.rect)

C26_Fewer == (pc = "bsp_call" /\ iter' # iter) => C26_CallsLeft' < C26_CallsLeft

C26_BspTerminates ==
    /\ []C26_Finite
    /\ [][C26_Fewer]_vars
    /\ (pc = "bsp_call") ~> (pc = "bsp_done")

\* bsp has returned a tree of more than one split.
C26_Reached == pc = "bsp_done" /\ iter.nodes >= 3 /\ iter.leaves = iter.nodes + 1

(***************************************************************************)
(* C28: in the Grid of grid.rs, index_to_coord is the exact left inverse   *)
(* of coord_to_index for every valid index of every grid with positive     *)
(* dimensions, non-square grids and non-zero offsets included:             *)
(* index_to_coord(coord_to_index(c)) = c for every coordinate c of the     *)
(* grid, so iter() pairs each cell with the coordinate under which get     *)
(* returns that cell.                                                      *)
(***************************************************************************)
\* The cell of a grid made with the identity generator is the coordinate
\* the generator was called on.
C28_RoundTrip ==
    /\ (last.op = "index_to_coord" /\ last.a \in GridCoords(obj)) => last.ret = last.a
    /\ last.op = "iter"
        => \A k \in DOMAIN last.ret :
              /\ last.ret[k].coord = last.ret[k].cell
              /\ Grid_get(obj, last.ret[k].coord) = Some(last.ret[k].cell)

C28_GridIndexRoundTrip == (pc = "grid_called" /\ gen.f.kind = "ident") => C28_RoundTrip

\* The same, for the square grids at the offset (0, 0).
C28_SquareRoundTrip ==
    (/\ pc = "grid_called" /\ gen.f.kind = "ident"
     /\ obj.dimensions.x = obj.dimensions.y /\ obj.offset = Coord(0, 0)) => C28_RoundTrip

\* index_to_coord has answered for the last cell of a grid that is not square.
C28_Reached ==
    /\ pc = "grid_called" /\ last.op = "index_to_coord"
    /\ obj.dimensions.x # obj.dimensions.y
    /\ last.b = Len(obj.cells) - 1 /\ last.b > 0

(***************************************************************************)
(* C29: in the Grid of grid.rs, for all positive dimensions and every      *)
(* offset (zero, positive or negative), coord_in_bounds(c) holds exactly   *)
(* for the coordinates the generator is called on, offset.x <= x <         *)
(* offset.x + dimensions.x and offset.y <= y < offset.y + dimensions.y;    *)
(* so get(c) is Some exactly for those coordinates, and two distinct       *)
(* in-bounds coordinates never have the same cell index.                   *)
(***************************************************************************)
C29_Called(c) == c \in Range(gen.calls)

C29_InRanges(c) ==
    /\ obj.offset.x <= c.x /\ c.x < obj.offset.x + obj.dimensions.x
    /\ obj.offset.y <= c.y /\ c.y < obj.offset.y + obj.dimensions.y

C29_Bounds ==
    /\ C29_Called(last.a) <=> C29_InRanges(last.a)
    /\ last.op = "coord_in_bounds" => (last.ret <=> C29_Called(last.a))
    /\ last.op = "get" => (last.ret.some <=> C29_Called(last.a))
    /\ (last.op = "coord_to_index" /\ last.ret.some)
        => \A other \in GridProbe(obj) \ {last.a} :
              Grid_coord_to_index(obj, other) # last.ret

C29_GridBounds ==
    (pc = "grid_called" /\ last.op \in {"coord_in_bounds", "get", "coord_to_index"})
        => C29_Bounds

\* The same, for the grids at the offset (0, 0).
C29_ZeroOffsetBounds ==
    (/\ pc = "grid_called" /\ last.op \in {"coord_in_bounds", "get", "coord_to_index"}
     /\ obj.offset = Coord(0, 0)) => C29_Bounds

\* get has answered for the last coordinate of a grid at a negative offset.
C29_Reached ==
    /\ pc = "grid_called" /\ last.op = "get"
    /\ obj.offset.x < 0 /\ obj.offset.y < 0
    /\ last.a = Coord(obj.offset.x + obj.dimensions.x - 1, obj.offset.y + obj.dimensions.y - 1)

(***************************************************************************)
(* C27: for every finite grid, start and predicate the flood iterator      *)
(* terminates: it eventually returns None and goes on returning None. In   *)
(* every state of the iterator the queue coords_to_search holds no         *)
(* coordinate twice and none of searched_coords, so the predicate examines *)
(* every coordinate at most once, and besides start only in-bounds         *)
(* coordinates are ever enqueued.                                          *)
(***************************************************************************)
C27_Flooding == pc \in {"flood", "grid_flood"}

C27_Ended == last.op = "flood_next" /\ ~last.ret.some

C27_NoRepeat(s) == \A i, j \in DOMAIN s : s[i] = s[j] => i = j

\* Inside the bounds of the grid that is flooded (for a Grid of grid.rs:
\* inside what Grid::bounds spans).
C27_InBounds(c) ==
    IF pc = "flood" THEN InBounds(c)
    ELSE /\ obj.offset.x <= c.x /\ c.x <= obj.dimensions.x - obj.offset.x - 1
         /\ obj.offset.y <= c.y /\ c.y <= obj.dimensions.y - obj.offset.y - 1

C27_Queue ==
    C27_Flooding =>
        /\ C27_NoRepeat(coords_to_search)
        /\ C27_NoRepeat(searched_coords)
        /\ Range(coords_to_search) \cap Range(searched_coords) = {}
        /\ \A c \in Range(coords_to_search) \cup Range(searched_coords) :
              c = last.a \/ C27_InBounds(c)
        /\ C27_Ended => coords_to_search = <<>>

\* A call of next examines coordinates not examined before, and after a
\* None every call returns None.
C27_Step ==
    (C27_Flooding /\ C27_Flooding')
        => /\ (last'.ret.some) => Len(searched_coords') > Len(searched_coords)
           /\ C27_Ended => C27_Ended'

C27_FloodTerminates ==
    /\ []C27_Queue
    /\ [][C27_Step]_vars
    /\ C27_Flooding ~> (~C27_Flooding \/ C27_Ended)

\* A flood that had rejected coordinates to skip has returned None.
C27_Reached ==
    /\ C27_Flooding /\ C27_Ended
    /\ Len(searched_coords) > Len(items) + 1 /\ Len(items) >= 4

(***************************************************************************)
(* C30: every successful in-bounds mutator changes only the cells it       *)
(* addresses. After set(c, v), get(c) = v and every other cell is as it    *)
(* was; replace(c, v) and take(c) return the old value of c, leave v (the  *)
(* default) at c and change no other cell; copy(src, dest) makes dest      *)
(* equal to src's value and changes no other cell, src included;           *)
(* swap(a, b) exchanges the two values and changes no other cell, so a     *)
(* second swap(a, b) restores the grid.                                    *)
(***************************************************************************)
\* The call was made on a VecGrid (otherwise on a Grid of grid.rs).
C30_OnVecGrid == pc = "called"

C30_Cells == IF C30_OnVecGrid THEN cells ELSE obj.cells

\* The coordinate is one of the grid's.
C30_In(c) == IF C30_OnVecGrid THEN InBounds(c) ELSE C29_InRanges(c)

\* The place of the coordinate's cell among the row-major cells.
C30_At(c) ==
    IF C30_OnVecGrid
    THEN (c.x - bounds.left) + ((c.y - bounds.top) * (bounds.right - bounds.left)) + 1
    ELSE (c.x - obj.offset.x) + ((c.y - obj.offset.y) * obj.dimensions.x) + 1

C30_Get(c) == IF C30_OnVecGrid THEN get(bounds, cells, c) ELSE Grid_get(obj, c)

C30_SwapAgain ==
    IF C30_OnVecGrid THEN swap(bounds, cells, last.a, last.b).cells
    ELSE Grid_swap(obj, last.a, last.b).cells

\* Every cell outside `places` is as it was before the call.
C30_OnlyAt(places) ==
    /\ Len(C30_Cells) = Len(last.pre)
    /\ \A i \in DOMAIN last.pre : i \notin places => C30_Cells[i] = last.pre[i]

C30_Frame ==
    /\ (last.op = "set" /\ last.ret = TRUE /\ C30_In(last.a))
        => /\ C30_Get(last.a) = Some(last.v)
           /\ C30_Cells[C30_At(last.a)] = last.v
           /\ C30_OnlyAt({C30_At(last.a)})
    /\ (last.op = "replace" /\ last.ret.some /\ C30_In(last.a))
        => /\ last.ret.val = last.pre[C30_At(last.a)]
           /\ C30_Cells[C30_At(last.a)] = last.v
           /\ C30_OnlyAt({C30_At(last.a)})
    /\ (last.op = "take" /\ last.ret.some /\ C30_In(last.a))
        => /\ last.ret.val = last.pre[C30_At(last.a)]
           /\ C30_Cells[C30_At(last.a)] = Default
           /\ C30_OnlyAt({C30_At(last.a)})
    /\ (last.op = "copy" /\ last.ret = TRUE /\ C30_In(last.a) /\ C30_In(last.b))
        => /\ C30_Cells[C30_At(last.b)] = last.pre[C30_At(last.a)]
           /\ C30_OnlyAt({C30_At(last.b)})
    /\ (last.op = "swap" /\ last.ret = TRUE /\ C30_In(last.a) /\ C30_In(last.b))
        => /\ C30_Cells[C30_At(last.a)] = last.pre[C30_At(last.b)]
           /\ C30_Cells[C30_At(last.b)] = last.pre[C30_At(last.a)]
           /\ C30_OnlyAt({C30_At(last.a), C30_At(last.b)})
           /\ C30_SwapAgain = last.pre

C30_MutatorsFrame == pc \in {"called", "grid_called"} => C30_Frame

\* A copy between two cells of different values has succeeded on a Grid that
\* has more cells.
C30_Reached ==
    /\ pc = "grid_called" /\ last.op = "copy" /\ last.ret = TRUE
    /\ C30_In(last.a) /\ C30_In(last.b)
    /\ last.pre[C30_At(last.a)] # last.pre[C30_At(last.b)]
    /\ Len(last.pre) > 2

====
